---------------------------- MODULE Spec2Model ----------------------------
(***************************************************************************)
(* Verification model of two subsystems of the repository:                 *)
(*                                                                         *)
(*  - the OpenGL pipeline cache (yuzu, video_core/renderer_opengl/         *)
(*    gl_shader_cache.cpp): ShaderCache::CurrentGraphicsPipeline,          *)
(*    CurrentGraphicsPipelineSlowPath, BuiltPipeline,                      *)
(*    CurrentComputePipeline, CreateGraphicsPipeline,                      *)
(*    CreateComputePipeline and LoadDiskResources, with the asynchronous   *)
(*    pipeline build of GraphicsPipeline::GraphicsPipeline;                *)
(*                                                                         *)
(*  - the control-flow analyzer of the legacy shader decompiler (citra,    *)
(*    video_core/shader/generator/glsl_shader_decompiler.cpp):             *)
(*    ControlFlowAnalyzer, AddSubroutine, Scan, ParallelExit, SeriesExit   *)
(*    and the entry point DecompileProgram.                                *)
(*                                                                         *)
(* Each subsystem has its own specifications (SpecCache, SpecKey, SpecDraw *)
(* for the cache; SpecCFA, SpecText, SpecExit for the decompiler);         *)
(* the variables of the other subsystems stay at their initial values.     *)
(***************************************************************************)
EXTENDS Integers, Sequences, FiniteSets, TLC

VARIABLES
    \* ---- OpenGL::ShaderCache -------------------------------------------
    use_asynchronous_shaders, \* device.UseAsynchronousShaders()
    strict_context_required,  \* device.StrictContextRequired()
    graphics_key,             \* member graphics_key (rewritten by every call)
    graphics_cache,           \* member graphics_cache: key -> pipeline id or NULL
    compute_cache,            \* member compute_cache: key -> pipeline id or NULL
    pipelines,                \* the pipeline objects owned by the two maps
    current_pipeline,         \* member current_pipeline (NULL or a pipeline id)
    shader_cache_filename,    \* TRUE when shader_cache_filename is not empty
    file,                     \* the cache file on disk
    build_queue,              \* pipeline builds queued on the shader workers
    ld,                       \* LoadDiskResources: loader thread and its local state
    load_queue,               \* work queued by load_compute / load_graphics
    wk,                       \* the shader worker threads
    state_mutex,              \* holder of the load's state.mutex, or "free"
    ret,                      \* the last call of a Current*Pipeline method
    builds,                   \* history: draw-time Create*Pipeline runs per key
    last_mut,                 \* history: the most recent mutation of a cache map
    \* ---- Pica legacy decompiler ------------------------------------------
    cfa,                      \* ControlFlowAnalyzer / DecompileProgram
    \* ---- Shader recompiler, Vulkan pipeline, destruction ring ------------
    ir,                       \* one translation / emission of the recompiler
    vk,                       \* a Vulkan GraphicsPipeline and the threads using it
    ring                      \* a DelayedDestructionRing<T, TICKS_TO_DESTROY>

cacheVars == <<use_asynchronous_shaders, strict_context_required, graphics_key,
               graphics_cache, compute_cache, pipelines, current_pipeline,
               shader_cache_filename, file, build_queue, ld, load_queue, wk,
               state_mutex, ret, builds, last_mut>>

otherVars == <<ir, vk, ring>>

vars == <<cacheVars, cfa, otherVars>>

NULL == 0

(***************************************************************************)
(* Bounds of the model.                                                    *)
(***************************************************************************)
\* Entries the draw thread adds to the two maps in one run (the maps only grow).
MaxEntries == 2
\* Records in the cache file when the emulator starts.
MaxRecords == 2
MaxMerges == 2
\* MAX_PROGRAM_CODE_LENGTH scaled down: the number of words of program_code.
PROGRAM_END == 3

(***************************************************************************)
(* Program constants.                                                      *)
(***************************************************************************)
CACHE_VERSION == 10
\* BuiltPipeline: "a small index count" is at most this many.
SmallCount == 6

(***************************************************************************)
(* Inputs: shaders and guest register state.                               *)
(***************************************************************************)
\* Shader content hashes (unique_hash); 0 is "stage not present".
Hashes == {1, 2}
\* Shaders whose translation throws Shader::Exception.
BadHashes == {2}

XfbZero == [layouts |-> <<0, 0, 0>>, varyings |-> 0]

\* regs.transform_feedback.controls[i] = (stream, varying_count, stride, <unused>)
\* and regs.stream_out_layout, as the guest last wrote them.
XfbRegs == { [controls |-> <<0, 1, 4, 7>>, stream_out_layout |-> 1],
             [controls |-> <<1, 2, 8, 7>>, stream_out_layout |-> 2] }

TessRegs == { [domain_type |-> "Isolines",  spacing |-> "Integer",
               output_primitives |-> "Points"],
              [domain_type |-> "Triangles", spacing |-> "FractionalOdd",
               output_primitives |-> "Triangles_CW"] }

\* The registers CurrentGraphicsPipeline reads to compute the key.
RegsOver(EarlyZ, Topo, Tess, XfbEn, Xfb) ==
    [ mandated_early_z : EarlyZ, topology : Topo, tessellation : Tess,
      transform_feedback_enabled : XfbEn, xfb : Xfb, engine_state : {0} ]

\* Register states of the draw specification: two topologies, so two keys per
\* shader.
RegsDraw ==
    RegsOver({0}, {"Points", "Triangles"},
             {CHOOSE t \in TessRegs : t.domain_type = "Triangles"}, {0},
             {CHOOSE x \in XfbRegs : x.stream_out_layout = 1})

\* Register state of the cache specification: one key per shader, the key the
\* cache file holds.
RegsNarrow == { r \in RegsDraw : r.topology = "Points" }

\* Register states of the key specification: every register the key is computed
\* from varies; at most one of the early-z, topology and tessellation registers
\* differs from the first narrow register state.
RegsBase == CHOOSE r \in RegsNarrow : r.topology = "Points"

RegsWide ==
    { r \in RegsOver({0, 1, 2}, {"Points", "Triangles"}, TessRegs, {0, 1}, XfbRegs) :
        Cardinality({ f \in {"mandated_early_z", "topology", "tessellation"} :
                        r[f] # RegsBase[f] }) <= 1 }

\* The draw state BuiltPipeline reads.
DrawStates == [ zeta_enable : {0, 1}, index_count : {SmallCount, SmallCount + 1},
                vertex_count : {SmallCount, SmallCount + 1} ]

\* Draw states of the cache specification: a depth draw with large counts and
\* a small draw without depth.
DrawsNarrow ==
    { d \in DrawStates : (d.zeta_enable = 1) = (d.index_count > SmallCount)
                         /\ d.vertex_count > SmallCount }

\* Compute launch descriptions (qmd) and the bound compute shader.
ComputeKeys == [ unique_hash : Hashes, shared_memory_size : {0},
                 workgroup_size : {<<1, 1, 1>>} ]


(***************************************************************************)
(* The graphics pipeline key.                                              *)
(***************************************************************************)
\* GraphicsPipelineKey graphics_key{} before the first call.
ZeroKey ==
    [ unique_hashes |-> 0, early_z |-> 0, gs_input_topology |-> "Points",
      tessellation_primitive |-> "Isolines", tessellation_spacing |-> "Integer",
      tessellation_clockwise |-> 0, xfb_enabled |-> 0, app_stage |-> 0,
      xfb_state |-> XfbZero ]

\* SetXfbState: every layout keeps (stream, varying_count, stride) of its control
\* register, and the varyings are regs.stream_out_layout.
SetXfbState(state, regs) ==
    [ layouts   |-> SubSeq(regs.xfb.controls, 1, 3),
      varyings  |-> regs.xfb.stream_out_layout ]

\* CurrentGraphicsPipeline, lines 355-367: graphics_key.raw = 0, every bit field
\* assigned from the registers, and xfb_state rewritten only when xfb_enabled.
\* `prev` is graphics_key as the previous call left it, `hashes` what
\* RefreshStages stored.
ComputeGraphicsKey(prev, hashes, regs) ==
    LET xfb_enabled == IF regs.transform_feedback_enabled # 0 THEN 1 ELSE 0 IN
    [ unique_hashes          |-> hashes,
      early_z                |-> IF regs.mandated_early_z # 0 THEN 1 ELSE 0,
      gs_input_topology      |-> regs.topology,
      tessellation_primitive |-> regs.tessellation.domain_type,
      tessellation_spacing   |-> regs.tessellation.spacing,
      tessellation_clockwise |->
          IF regs.tessellation.output_primitives = "Triangles_CW" THEN 1 ELSE 0,
      xfb_enabled            |-> xfb_enabled,
      app_stage              |-> regs.engine_state,
      xfb_state              |-> IF xfb_enabled # 0
                                 THEN SetXfbState(prev.xfb_state, regs)
                                 ELSE prev.xfb_state ]

\* The key a cache that has computed no key before computes from the same inputs.
FreshKey(hashes, regs) == ComputeGraphicsKey(ZeroKey, hashes, regs)

\* GraphicsPipelineKey::operator== as the maps and the fast path use it: the keys
\* are byte-comparable structs.
KeyEq(a, b) == a = b

(***************************************************************************)
(* Maps and pipeline objects.                                              *)
(***************************************************************************)
EmptyMap == <<>>

Has(map, key) == \E k \in DOMAIN map : KeyEq(k, key)

\* std::unordered_map::try_emplace(key) / emplace(key, value): the entry is
\* written only when the key is absent.
Emplace(map, key, value) ==
    IF Has(map, key) THEN map
    ELSE [k \in (DOMAIN map) \cup {key} |-> IF k = key THEN value ELSE map[k]]

\* A slip: every request is treated as a new key.
IsNewAlways(map, key) == TRUE

\* A slip: an entry that holds nullptr is built again ("if (!pipeline)").
IsNewOrNull(map, key) == ~Has(map, key) \/ map[key] = NULL

\* The is_new result of try_emplace.
IsNew(map, key) == ~Has(map, key)

\* TranslateProgram and the backend emitters throw Shader::Exception for the
\* shaders they cannot translate; CreateGraphicsPipeline / CreateComputePipeline
\* catch it and return nullptr.
Translates(hash) == hash \notin BadHashes

NewId == Len(pipelines) + 1

\* GraphicsPipeline constructor: the build function runs inline (worker_thread
\* null) and sets is_built, or is queued on the workers.
NewGraphicsPipeline(key, on_workers) ==
    [ kind |-> "graphics", key |-> key, is_built |-> ~on_workers ]

NewComputePipeline(key) ==
    [ kind |-> "compute", key |-> key, is_built |-> TRUE ]

(***************************************************************************)
(* BuiltPipeline: TRUE when the pipeline is returned, FALSE when nullptr is. *)
(***************************************************************************)
\* The policy as the design text words it: wait when depth is on or the counts
\* are large.
BuiltPipelineInverted(is_built, async, draw) ==
    \/ is_built
    \/ ~async
    \/ draw.zeta_enable # 0
    \/ (draw.index_count > SmallCount /\ draw.vertex_count > SmallCount)

BuiltPipeline(is_built, async, draw) ==
    IF is_built THEN TRUE
    ELSE IF ~async THEN TRUE
    ELSE IF draw.zeta_enable # 0 THEN FALSE
    ELSE IF draw.index_count <= SmallCount \/ draw.vertex_count <= SmallCount
         THEN TRUE
    ELSE FALSE

(***************************************************************************)
(* The cache file.                                                         *)
(***************************************************************************)
NoFile == [ version |-> 0, records |-> <<>> ]

\* SerializePipeline(key, envs, filename, cache_version): appends one record; a
\* file that does not exist yet gets its header first.
SerializePipeline(f, kind, key, cache_version) ==
    [ version |-> IF f = NoFile THEN cache_version ELSE f.version,
      records |-> Append(f.records, [kind |-> kind, key |-> key]) ]

\* A slip: the null check of the created pipeline is dropped.
ShouldSerializeAlways(pipeline_ok, filename_set) == filename_set

\* Create*Pipeline: "if (!pipeline || shader_cache_filename.empty()) return".
ShouldSerialize(pipeline_ok, filename_set) == pipeline_ok /\ filename_set


(***************************************************************************)
(* Initial state of the cache.                                             *)
(***************************************************************************)
\* The shader worker threads (max(hardware_concurrency, 2) - 1 of them), and the
\* loader thread, which runs the queued work itself when a strict context is
\* required.
Workers == {"w1", "w2"}
Threads == Workers \cup {"loader"}

IdleWorker == [ pc |-> "idle", job |-> NoFile, ok |-> FALSE ]

\* State local to one LoadDiskResources call (the struct `state`, the position
\* of the loader thread, the records LoadPipelines has not read yet, the stop
\* token, the arguments of the last Build-stage callback, and the file as
\* LoadPipelines found it).
IdleLoad ==
    [ pc |-> "idle", total |-> 0, built |-> 0, has_loaded |-> FALSE,
      todo |-> <<>>, stop |-> FALSE, reported |-> <<>>, opened |-> NoFile ]

\* What the last Current*Pipeline call was given and what it returned.
\* (key and regs: the key computed and the registers read; draw: the draw state;
\* probed: the map was probed; is_new: the probe inserted the entry; built: the
\* IsBuilt() that BuiltPipeline read; value: the pointer returned.)
NoCall == [ op |-> "none", key |-> <<>>, regs |-> <<>>, draw |-> <<>>,
            probed |-> FALSE, is_new |-> FALSE, built |-> FALSE, value |-> NULL ]

\* Keys a previous run may have left in the cache file.
DiskKeyRegs == CHOOSE r \in RegsNarrow :
                   r.topology = "Points" /\ r.transform_feedback_enabled = 0

DiskRecordOf(kind, hash) ==
    [ kind |-> kind,
      key  |-> IF kind = "graphics" THEN FreshKey(hash, DiskKeyRegs)
               ELSE CHOOSE c \in ComputeKeys : c.unique_hash = hash ]

\* The records a file may hold: a graphics and a compute pipeline the running
\* build translates, and a graphics pipeline it cannot translate.
DiskRecords == { DiskRecordOf("graphics", 1), DiskRecordOf("compute", 1) }
                   \cup { DiskRecordOf("graphics", h) : h \in BadHashes }

RECURSIVE SeqsUpTo(_, _)
SeqsUpTo(S, n) ==
    IF n = 0 THEN { <<>> }
    ELSE LET shorter == SeqsUpTo(S, n - 1) IN
         shorter \cup { Append(q, x) : q \in shorter, x \in S }

\* No file, or a file of the running or of the previous version. A file holds
\* every key once: a key is appended when it is built for the first time.
InitialFiles ==
    { NoFile } \cup
    { [version |-> v, records |-> r] :
        v \in {CACHE_VERSION, CACHE_VERSION - 1},
        r \in { q \in SeqsUpTo(DiskRecords, MaxRecords) :
                   q # <<>> /\ \A i, j \in DOMAIN q : q[i] = q[j] => i = j } }

\* The decompiler before DecompileProgram is called. `steps` counts the steps
\* the analysis has taken; nothing reads it. `result` is "none" before the call
\* returns, "" for the empty string and "text" for a non-empty one, whose
\* lines are `shader_source`. `scans` counts, for each range, how often the
\* body of Scan ran for it; `analyses` keeps, for each range whose scan has
\* returned, the exit method and the labels that scan produced; `repeats` keeps
\* what each later Scan call for a range already in the memo produced;
\* `merges` keeps the calls of ParallelExit and SeriesExit made on their own.
\* Nothing reads the four.
CfaIdle ==
    [ pc |-> "off", program_code |-> <<>>, main_offset |-> 0, stack |-> <<>>,
      rv |-> "none", subroutines |-> {}, exit_method_map |-> <<>>,
      error |-> "", result |-> "none", steps |-> 0,
      swizzle_data |-> <<>>, sanitize_mul |-> FALSE, shader_source |-> <<>>,
      scans |-> <<>>, analyses |-> <<>>, repeats |-> {}, merges |-> <<>> ]

\* The recompiler before an instruction is emitted or translated.
IrIdle ==
    [ pc |-> "off",
      profile |-> [ ignore_nan_fp_comparisons |-> FALSE,
                    has_broken_spirv_clamp |-> FALSE ],
      opcode |-> [class |-> "", rel |-> ""], bits |-> 0, args |-> <<>>,
      code |-> <<>>, value |-> "none",
      insn |-> [ index |-> 0, src_reg |-> 0, offset |-> 0, mode |-> "",
                 size |-> "", dest_reg |-> 0 ] ]

\* No GraphicsPipeline has been constructed. `build` is the position of the
\* build function, `draw` the position and the locals of ConfigureDraw on
\* the draw thread, `chunk` the commands recorded with the scheduler and not
\* yet executed, `sched` the position of the thread that executes them,
\* `rasterization` the pNext chain of rasterization_ci. `executed` keeps the
\* commands in the order they were executed and `blocked` whether a wait ever
\* blocked; nothing reads the two.
VkIdle ==
    [ pc |-> "off", worker_thread |-> FALSE, topology |-> "", has_tess_stages |-> FALSE,
      device |-> [ line |-> FALSE, conservative |-> FALSE, provoking |-> FALSE ],
      rasterization |-> <<>>, pipeline |-> FALSE, is_built |-> FALSE,
      build |-> "none", build_mutex |-> "free", chunk |-> <<>>, sched |-> "idle",
      draw |-> [ pc |-> "idle", is_built |-> FALSE ], draws |-> 0,
      executed |-> <<>>, blocked |-> FALSE ]

\* No DelayedDestructionRing has been constructed.
RingIdle ==
    [ pc |-> "off", TICKS_TO_DESTROY |-> 0, index |-> 0, elements |-> <<>>,
      ticks |-> 0, pushed |-> <<>>, destroyed |-> <<>> ]

OtherIdle == ir = IrIdle /\ vk = VkIdle /\ ring = RingIdle

InitCacheVars ==
    /\ use_asynchronous_shaders \in BOOLEAN
    /\ strict_context_required \in BOOLEAN
    /\ graphics_key = ZeroKey
    /\ graphics_cache = EmptyMap
    /\ compute_cache = EmptyMap
    /\ pipelines = <<>>
    /\ current_pipeline = NULL
    /\ shader_cache_filename = FALSE
    /\ file \in InitialFiles
    /\ build_queue = {}
    /\ ld = IdleLoad
    /\ load_queue = <<>>
    /\ wk = [w \in Threads |-> IdleWorker]
    /\ state_mutex = "free"
    /\ ret = NoCall
    /\ builds = [graphics |-> EmptyMap, compute |-> EmptyMap]
    /\ last_mut = [by |-> "none", locked |-> FALSE]

(***************************************************************************)
(* The draw thread.                                                        *)
(***************************************************************************)
\* The draw thread calls into the cache after LoadDiskResources has returned
\* (the disk resources are loaded when a title boots, before it draws).
DrawAllowed == ld.pc = "done"

Count(map, key) == IF key \in DOMAIN map THEN map[key] ELSE 0

\* Entries the draw thread has added so far.
DrawEntries == Cardinality(DOMAIN builds.graphics) + Cardinality(DOMAIN builds.compute)

Bump(map, key) ==
    [k \in (DOMAIN map) \cup {key} |-> IF k = key THEN Count(map, key) + 1 ELSE map[k]]

loadVars == <<ld, load_queue, wk, state_mutex>>

\* CurrentGraphicsPipeline when RefreshStages fails: current_pipeline is reset
\* and nullptr returned; graphics_key.unique_hashes holds what RefreshStages
\* wrote before it failed.
GraphicsRefreshFails(h) ==
    /\ graphics_key' = [graphics_key EXCEPT !.unique_hashes = h]
    /\ current_pipeline' = NULL
    /\ ret' = [NoCall EXCEPT !.op = "refresh_failed"]
    /\ UNCHANGED <<graphics_cache, compute_cache, pipelines, file, build_queue,
                   builds, last_mut>>

\* The fast path of CurrentGraphicsPipeline (lines 368-370).
GraphicsFastPath(key, regs, draw) ==
    /\ graphics_key' = key
    /\ ret' = [ op |-> "graphics", key |-> key, regs |-> regs, draw |-> draw,
                probed |-> FALSE, is_new |-> FALSE,
                built |-> pipelines[current_pipeline].is_built,
                value |-> IF BuiltPipeline(pipelines[current_pipeline].is_built,
                                           use_asynchronous_shaders, draw)
                          THEN current_pipeline ELSE NULL ]
    /\ UNCHANGED <<graphics_cache, compute_cache, pipelines, current_pipeline, file,
                   build_queue, builds, last_mut>>

\* CurrentGraphicsPipelineSlowPath with CreateGraphicsPipeline() (lines 374-385
\* and 429-447).
GraphicsSlowPath(key, regs, draw) ==
    LET is_new   == IsNew(graphics_cache, key)
        created  == is_new /\ Translates(key.unique_hashes)
        pid      == IF created THEN NewId
                    ELSE IF is_new THEN NULL
                    ELSE graphics_cache[key]
        objs     == IF created
                    THEN Append(pipelines,
                                NewGraphicsPipeline(key, use_asynchronous_shaders))
                    ELSE pipelines
    IN  /\ is_new => DrawEntries < MaxEntries
        /\ graphics_key' = key
        /\ pipelines' = objs
        /\ graphics_cache' =
              IF is_new
              THEN [Emplace(graphics_cache, key, NULL) EXCEPT ![key] = pid]
              ELSE graphics_cache
        /\ build_queue' = IF created /\ use_asynchronous_shaders
                          THEN build_queue \cup {pid} ELSE build_queue
        /\ file' = IF is_new /\ ShouldSerialize(created, shader_cache_filename)
                   THEN SerializePipeline(file, "graphics", key, CACHE_VERSION)
                   ELSE file
        /\ current_pipeline' = IF pid = NULL THEN current_pipeline ELSE pid
        /\ ret' = [ op |-> "graphics", key |-> key, regs |-> regs, draw |-> draw,
                    probed |-> TRUE, is_new |-> is_new,
                    built |-> pid # NULL /\ objs[pid].is_built,
                    value |-> IF pid # NULL /\
                                 BuiltPipeline(objs[pid].is_built,
                                               use_asynchronous_shaders, draw)
                              THEN pid ELSE NULL ]
        /\ builds' = IF is_new
                     THEN [builds EXCEPT !.graphics = Bump(@, key)]
                     ELSE builds
        /\ last_mut' = IF is_new
                       THEN [by |-> "draw", locked |-> state_mutex = "draw"]
                       ELSE last_mut
        /\ UNCHANGED compute_cache

\* A slip: the fast path is taken whenever a pipeline was returned before.
UseFastPathAnyKey(cur, key) == cur # NULL

\* "current_pipeline && graphics_key == current_pipeline->Key()"
UseFastPath(cur, key) == cur # NULL /\ KeyEq(key, pipelines[cur].key)

CurrentGraphicsPipelineOver(Hs, Regs, Draws) ==
    /\ DrawAllowed
    /\ \/ \E h \in Hs : GraphicsRefreshFails(h)
       \/ \E h \in Hs, regs \in Regs, draw \in Draws :
            LET key == ComputeGraphicsKey(graphics_key, h, regs) IN
            IF UseFastPath(current_pipeline, key)
            THEN GraphicsFastPath(key, regs, draw)
            ELSE GraphicsSlowPath(key, regs, draw)
    /\ UNCHANGED <<use_asynchronous_shaders, strict_context_required,
                   shader_cache_filename, loadVars, cfa, otherVars>>

CurrentGraphicsPipeline ==
    CurrentGraphicsPipelineOver(Hashes, RegsNarrow, DrawsNarrow)

\* CurrentComputePipeline (lines 409-427) with CreateComputePipeline(key, shader)
\* (lines 555-570).
CurrentComputePipeline ==
    /\ DrawAllowed
    /\ \/ /\ ret' = [NoCall EXCEPT !.op = "no_shader"]
          /\ UNCHANGED <<compute_cache, pipelines, file, builds, last_mut>>
       \/ \E key \in ComputeKeys :
              LET is_new  == IsNew(compute_cache, key)
                  created == is_new /\ Translates(key.unique_hash)
                  pid     == IF created THEN NewId
                             ELSE IF is_new THEN NULL
                             ELSE compute_cache[key]
              IN  /\ is_new => DrawEntries < MaxEntries
                  /\ pipelines' = IF created
                                  THEN Append(pipelines, NewComputePipeline(key))
                                  ELSE pipelines
                  /\ compute_cache' =
                        IF is_new
                        THEN [Emplace(compute_cache, key, NULL) EXCEPT ![key] = pid]
                        ELSE compute_cache
                  /\ file' = IF is_new /\ ShouldSerialize(created, shader_cache_filename)
                             THEN SerializePipeline(file, "compute", key, CACHE_VERSION)
                             ELSE file
                  /\ ret' = [ op |-> "compute", key |-> key, regs |-> <<>>,
                              draw |-> <<>>, probed |-> TRUE, is_new |-> is_new,
                              built |-> pid # NULL, value |-> pid ]
                  /\ builds' = IF is_new
                               THEN [builds EXCEPT !.compute = Bump(@, key)]
                               ELSE builds
                  /\ last_mut' = IF is_new
                                 THEN [by |-> "draw", locked |-> state_mutex = "draw"]
                                 ELSE last_mut
    /\ UNCHANGED <<use_asynchronous_shaders, strict_context_required, graphics_key,
                   graphics_cache, current_pipeline, shader_cache_filename,
                   build_queue, loadVars, cfa, otherVars>>

\* A shader worker runs the build function a GraphicsPipeline constructor queued:
\* "std::scoped_lock lock{build_mutex}; is_built = true;".
WorkerBuildsPipeline ==
    /\ \E pid \in build_queue :
         /\ pipelines' = [pipelines EXCEPT ![pid].is_built = TRUE]
         /\ build_queue' = build_queue \ {pid}
    /\ UNCHANGED <<use_asynchronous_shaders, strict_context_required, graphics_key,
                   graphics_cache, compute_cache, current_pipeline,
                   shader_cache_filename, file, loadVars, ret, builds, last_mut, cfa, otherVars>>


(***************************************************************************)
(* LoadDiskResources: the loader thread and the workers it feeds.          *)
(***************************************************************************)
drawVars == <<graphics_key, current_pipeline, build_queue, ret, builds>>

\* LoadDiskResources has returned: its locals are gone.
Returned == [IdleLoad EXCEPT !.pc = "done"]

\* LoadPipelines(stop, filename, cache_version, load_compute, load_graphics):
\* the records it hands to the two callbacks. A file whose version differs from
\* cache_version is discarded as a whole.
LoadPipelinesRecords(f, cache_version) ==
    IF f # NoFile /\ f.version = cache_version THEN f.records ELSE <<>>

LoadPipelinesFile(f, cache_version) ==
    IF f # NoFile /\ f.version # cache_version THEN NoFile ELSE f

\* A slip: the version the file itself carries is passed on.
LoadedRecordsAnyVersion(f) == LoadPipelinesRecords(f, f.version)

\* Line 331: LoadPipelines(stop_loading, shader_cache_filename, CACHE_VERSION, ...)
LoadedRecords(f) == LoadPipelinesRecords(f, CACHE_VERSION)

\* Lines 258-277: the early returns, the file name, and the start of LoadPipelines.
LoadDiskResources ==
    /\ ld.pc = "idle"
    /\ \E title_id \in {0, 1}, dirs_created \in BOOLEAN :
         IF title_id = 0 \/ ~dirs_created
         THEN /\ ld' = Returned
              /\ UNCHANGED <<shader_cache_filename, file>>
         ELSE /\ shader_cache_filename' = TRUE
              /\ ld' = [ld EXCEPT !.pc = "reading", !.todo = LoadedRecords(file),
                                  !.opened = file]
              /\ file' = LoadPipelinesFile(file, CACHE_VERSION)
    /\ UNCHANGED <<use_asynchronous_shaders, strict_context_required, graphics_cache,
                   compute_cache, pipelines, load_queue, wk, state_mutex, last_mut,
                   drawVars, cfa, otherVars>>

\* The stop token is set while LoadPipelines reads; it is looked at between
\* entries.
RequestStop ==
    /\ ld.pc = "reading" /\ ~ld.stop
    /\ ld' = [ld EXCEPT !.stop = TRUE]
    /\ UNCHANGED <<use_asynchronous_shaders, strict_context_required, graphics_cache,
                   compute_cache, pipelines, shader_cache_filename, file, load_queue,
                   wk, state_mutex, last_mut, drawVars, cfa, otherVars>>

\* The thread that runs queued load work: workers->QueueWork, or the loader
\* itself through work(&strict_context.value()) (queue_work, lines 286-292).
RunsLoadWork(t) == IF strict_context_required THEN t = "loader" ELSE t \in Workers

LoadWorkIdle == load_queue = <<>> /\ \A t \in Threads : wk[t].pc = "idle"

\* load_compute / load_graphics (lines 293-330): read one key, queue its work,
\* ++state.total.
LoadEntry ==
    /\ ld.pc = "reading" /\ ~ld.stop /\ ld.todo # <<>>
    /\ strict_context_required => LoadWorkIdle
    /\ load_queue' = Append(load_queue, Head(ld.todo))
    /\ ld' = [ld EXCEPT !.todo = Tail(@), !.total = @ + 1]
    /\ UNCHANGED <<use_asynchronous_shaders, strict_context_required, graphics_cache,
                   compute_cache, pipelines, shader_cache_filename, file, wk,
                   state_mutex, last_mut, drawVars, cfa, otherVars>>

\* Lines 335-338: callback(Build, 0, total) and has_loaded = true, under the lock.
LoadFinish ==
    /\ ld.pc = "reading" /\ (ld.stop \/ ld.todo = <<>>)
    /\ strict_context_required => LoadWorkIdle
    /\ state_mutex = "free"
    /\ ld' = [ld EXCEPT !.pc = "waiting", !.has_loaded = TRUE,
                        !.reported = <<0, ld.total>>]
    /\ UNCHANGED <<use_asynchronous_shaders, strict_context_required, graphics_cache,
                   compute_cache, pipelines, shader_cache_filename, file, load_queue,
                   wk, state_mutex, last_mut, drawVars, cfa, otherVars>>

\* Lines 340-346: the return when a strict context is required (its work ran
\* inline and is over); otherwise workers->WaitForRequests(stop_loading)
\* returns once no queued work is left to run; work still queued when a stop
\* was requested is dropped.
LoadWait ==
    /\ ld.pc = "waiting"
    /\ \A t \in Threads : wk[t].pc = "idle"
    /\ load_queue = <<>> \/ ld.stop
    /\ ld' = Returned
    /\ load_queue' = <<>>
    /\ UNCHANGED <<use_asynchronous_shaders, strict_context_required, graphics_cache,
                   compute_cache, pipelines, shader_cache_filename, file, wk,
                   state_mutex, last_mut, drawVars, cfa, otherVars>>

\* The queued work up to the lock: ctx->pools.ReleaseContents() and
\* Create*Pipeline(ctx->pools, key, env, ...), which returns nullptr when the
\* translation throws.
WorkerCreates(t) ==
    /\ RunsLoadWork(t)
    /\ ld.pc \in {"reading", "waiting"}
    /\ wk[t].pc = "idle" /\ load_queue # <<>>
    /\ LET job == Head(load_queue)
           hash == IF job.kind = "graphics" THEN job.key.unique_hashes
                   ELSE job.key.unique_hash
       IN wk' = [wk EXCEPT ![t] = [pc |-> "created", job |-> job,
                                   ok |-> Translates(hash)]]
    /\ load_queue' = Tail(load_queue)
    /\ UNCHANGED <<use_asynchronous_shaders, strict_context_required, graphics_cache,
                   compute_cache, pipelines, shader_cache_filename, file, ld,
                   state_mutex, last_mut, drawVars, cfa, otherVars>>

\* A slip: the lock is not taken.
AcquireNothing(mutex, t) == mutex

\* std::scoped_lock lock{state.mutex}
Acquire(mutex, t) == t

WorkerLocks(t) ==
    /\ wk[t].pc = "created"
    /\ state_mutex = "free"
    /\ state_mutex' = Acquire(state_mutex, t)
    /\ wk' = [wk EXCEPT ![t].pc = "locked"]
    /\ UNCHANGED <<use_asynchronous_shaders, strict_context_required, graphics_cache,
                   compute_cache, pipelines, shader_cache_filename, file, ld,
                   load_queue, last_mut, drawVars, cfa, otherVars>>

\* The queued work under the lock: emplace when the pipeline is not null,
\* ++state.built, the callback once has_loaded; the lock is released at the end.
WorkerCommits(t) ==
    /\ wk[t].pc = "locked"
    /\ LET job    == wk[t].job
           cache  == IF job.kind = "graphics" THEN graphics_cache ELSE compute_cache
           insert == wk[t].ok /\ Emplace(cache, job.key, NewId) # cache
           obj    == IF job.kind = "graphics"
                     THEN NewGraphicsPipeline(job.key, FALSE)
                     ELSE NewComputePipeline(job.key)
       IN /\ pipelines' = IF insert THEN Append(pipelines, obj) ELSE pipelines
          /\ graphics_cache' = IF wk[t].ok /\ job.kind = "graphics"
                               THEN Emplace(graphics_cache, job.key, NewId)
                               ELSE graphics_cache
          /\ compute_cache' = IF wk[t].ok /\ job.kind = "compute"
                              THEN Emplace(compute_cache, job.key, NewId)
                              ELSE compute_cache
          /\ last_mut' = IF insert
                         THEN [by |-> t, locked |-> state_mutex = t]
                         ELSE last_mut
    /\ ld' = [ld EXCEPT !.built = @ + 1,
                        !.reported = IF ld.has_loaded
                                     THEN <<ld.built + 1, ld.total>> ELSE @]
    /\ state_mutex' = IF state_mutex = t THEN "free" ELSE state_mutex
    /\ wk' = [wk EXCEPT ![t] = IdleWorker]
    /\ UNCHANGED <<use_asynchronous_shaders, strict_context_required,
                   shader_cache_filename, file, load_queue, drawVars, cfa, otherVars>>

(***************************************************************************)
(* Specifications of the pipeline cache.                                   *)
(***************************************************************************)
InitCache == InitCacheVars /\ cfa = CfaIdle /\ OtherIdle

NextCache ==
    \/ CurrentGraphicsPipeline
    \/ CurrentComputePipeline
    \/ WorkerBuildsPipeline
    \/ LoadDiskResources
    \/ RequestStop
    \/ LoadEntry
    \/ LoadFinish
    \/ LoadWait
    \/ \E t \in Threads : WorkerCreates(t)
    \/ \E t \in Threads : WorkerLocks(t)
    \/ \E t \in Threads : WorkerCommits(t)

SpecCache == InitCache /\ [][NextCache]_vars


\* The draw thread on its own, after a LoadDiskResources call that returned at
\* once (title_id 0).
InitDrawOnly ==
    /\ use_asynchronous_shaders \in BOOLEAN
    /\ strict_context_required = FALSE
    /\ graphics_key = ZeroKey
    /\ graphics_cache = EmptyMap
    /\ compute_cache = EmptyMap
    /\ pipelines = <<>>
    /\ current_pipeline = NULL
    /\ shader_cache_filename = FALSE
    /\ file = NoFile
    /\ build_queue = {}
    /\ ld = Returned
    /\ load_queue = <<>>
    /\ wk = [w \in Threads |-> IdleWorker]
    /\ state_mutex = "free"
    /\ ret = NoCall
    /\ builds = [graphics |-> EmptyMap, compute |-> EmptyMap]
    /\ last_mut = [by |-> "none", locked |-> FALSE]
    /\ cfa = CfaIdle
    /\ OtherIdle

\* The key computation: every register the key is computed from varies.
NextKey ==
    \/ CurrentGraphicsPipelineOver(Hashes \ BadHashes, RegsWide, DrawsNarrow)
    \/ WorkerBuildsPipeline

SpecKey == InitDrawOnly /\ [][NextKey]_vars

\* BuiltPipeline: every draw state varies.
NextDraw ==
    \/ CurrentGraphicsPipelineOver(Hashes, RegsDraw, DrawStates)
    \/ WorkerBuildsPipeline

SpecDraw == InitDrawOnly /\ [][NextDraw]_vars

C2_FailedNeverRetried ==
    [][ /\ \A k \in DOMAIN graphics_cache :
               graphics_cache[k] = NULL
                   => /\ Has(graphics_cache', k) /\ graphics_cache'[k] = NULL
                      /\ Count(builds'.graphics, k) = Count(builds.graphics, k)
        /\ \A k \in DOMAIN compute_cache :
               compute_cache[k] = NULL
                   => /\ Has(compute_cache', k) /\ compute_cache'[k] = NULL
                      /\ Count(builds'.compute, k) = Count(builds.compute, k)
        /\ \A k \in DOMAIN graphics_cache' :
               graphics_cache'[k] = NULL
                   => ~Translates(k.unique_hashes) /\ Count(builds'.graphics, k) = 1
        /\ \A k \in DOMAIN compute_cache' :
               compute_cache'[k] = NULL
                   => ~Translates(k.unique_hash) /\ Count(builds'.compute, k) = 1
        /\ (ret'.op = "graphics" /\ graphics_cache'[ret'.key] = NULL)
               => ret'.value = NULL
        /\ (ret'.op = "compute" /\ compute_cache'[ret'.key] = NULL)
               => ret'.value = NULL
      ]_vars

\* A key whose build failed is requested again: the probe finds the null entry
\* and null is returned, with one build on record.
C2_Witness ==
    /\ ret.op = "graphics" /\ ret.probed /\ ~ret.is_new /\ ret.value = NULL
    /\ graphics_cache[ret.key] = NULL
    /\ Count(builds.graphics, ret.key) = 1

\* The draw is "non-trivial" in the sense of the design text.
NonTrivialDraw(draw) ==
    \/ draw.zeta_enable # 0
    \/ draw.index_count > SmallCount
    \/ draw.vertex_count > SmallCount

\* C3 as stated: with asynchronous shaders, an unbuilt pipeline is returned
\* exactly when the draw is non-trivial (depth enabled or a count above the
\* threshold) and is a miss otherwise; a built one is always returned.
C3_AsStated ==
    (ret.op = "graphics" /\ graphics_cache[ret.key] # NULL)
        => IF ret.built THEN ret.value = graphics_cache[ret.key]
           ELSE use_asynchronous_shaders
                    => (ret.value # NULL <=> NonTrivialDraw(ret.draw))

\* C3: what BuiltPipeline does. A built pipeline is always returned, and so is
\* any pipeline when asynchronous shaders are off. With asynchronous shaders an
\* unbuilt pipeline is returned only when depth is disabled and the index count
\* or the vertex count is at most 6; it is a miss (null) when depth is enabled
\* or both counts are above 6.
C3_BuiltPipelinePolicy ==
    (ret.op = "graphics" /\ graphics_cache[ret.key] # NULL)
        => /\ ret.value \in {NULL, graphics_cache[ret.key]}
           /\ (ret.built \/ ~use_asynchronous_shaders) => ret.value # NULL
           /\ (~ret.built /\ use_asynchronous_shaders)
                  => (ret.value # NULL <=>
                         /\ ret.draw.zeta_enable = 0
                         /\ \/ ret.draw.index_count <= SmallCount
                            \/ ret.draw.vertex_count <= SmallCount)

\* An unbuilt pipeline requested by a depth draw with large counts: a miss.
C3_Witness ==
    /\ ret.op = "graphics" /\ use_asynchronous_shaders
    /\ graphics_cache[ret.key] # NULL /\ ~ret.built
    /\ ret.draw.zeta_enable # 0
    /\ ret.draw.index_count > SmallCount /\ ret.draw.vertex_count > SmallCount
    /\ ret.value = NULL

\* C4: the fast path. Every graphics call recomputes the key from the registers;
\* it probes the map exactly when there is no previously returned pipeline or
\* the new key differs from that pipeline's key; the previously returned
\* pipeline is always the one stored at its own key, so on either path the call
\* returns what a lookup of the key followed by BuiltPipeline returns.
C4_FastPathEquivalent ==
    [][ /\ current_pipeline' # NULL
            => /\ pipelines'[current_pipeline'].kind = "graphics"
               /\ graphics_cache'[pipelines'[current_pipeline'].key] = current_pipeline'
        /\ (ret' # ret /\ ret'.op = "graphics")
            => LET found == graphics_cache'[ret'.key] IN
               /\ ret'.key = ComputeGraphicsKey(graphics_key, ret'.key.unique_hashes,
                                                ret'.regs)
               /\ graphics_key' = ret'.key
               /\ ret'.probed <=> \/ current_pipeline = NULL
                                  \/ pipelines[current_pipeline].key # ret'.key
               /\ ret'.built = (found # NULL /\ pipelines'[found].is_built)
               /\ ret'.value = IF found # NULL /\
                                   BuiltPipeline(ret'.built, use_asynchronous_shaders,
                                                 ret'.draw)
                                THEN found ELSE NULL
      ]_vars

\* The fast path returns a pipeline while another key of the map holds a failed
\* build.
C4_Witness ==
    /\ ret.op = "graphics" /\ ~ret.probed /\ ret.value # NULL
    /\ ret.value = graphics_cache[ret.key]
    /\ \E k \in DOMAIN graphics_cache : graphics_cache[k] = NULL

\* C5 as stated: the key a graphics call computes is the key a cache that has
\* computed no key before computes from the same hashes and registers.
C5_KeyIsFunctionOfInputs ==
    ret.op = "graphics" => ret.key = FreshKey(ret.key.unique_hashes, ret.regs)

\* What does hold for C5: every field of the key but xfb_state is decided by the
\* hashes and the registers of the call, and so is xfb_state while transform
\* feedback is enabled.
C5_KeyFieldsFollowRegisters ==
    ret.op = "graphics"
        => LET fresh == FreshKey(ret.key.unique_hashes, ret.regs) IN
           /\ [ret.key EXCEPT !.xfb_state = XfbZero] = [fresh EXCEPT !.xfb_state = XfbZero]
           /\ ret.key.xfb_enabled # 0 => ret.key = fresh

\* A key computed with transform feedback disabled carries the xfb_state an
\* earlier call wrote.
C5_Witness ==
    /\ ret.op = "graphics" /\ ret.key.xfb_enabled = 0
    /\ ret.key.xfb_state # XfbZero
    /\ ret.key # FreshKey(ret.key.unique_hashes, ret.regs)

\* The status of a key in a cache map.
StatusIn(cache, objs, k) ==
    IF ~Has(cache, k) THEN "NotRequested"
    ELSE IF cache[k] = NULL THEN "Failed"
    ELSE IF objs[cache[k]].is_built THEN "Built"
    ELSE "Building"

StatusRank(st) ==
    CASE st = "NotRequested" -> 0
      [] st = "Building"     -> 1
      [] OTHER               -> 2

StatusMovesForward(cache, objs, cache2, objs2) ==
    \A k \in (DOMAIN cache) \cup (DOMAIN cache2) :
        /\ StatusRank(StatusIn(cache, objs, k)) <= StatusRank(StatusIn(cache2, objs2, k))
        /\ StatusIn(cache, objs, k) \in {"Built", "Failed"}
               => StatusIn(cache2, objs2, k) = StatusIn(cache, objs, k)
        /\ Has(cache, k) => Has(cache2, k)
        /\ (Has(cache, k) /\ cache[k] # NULL) => cache2[k] = cache[k]

\* C6: the status of every key only moves forward along
\* NotRequested -> Building -> Built or Failed: an entry is never removed and
\* never bound to another object, a pipeline keeps its key, its built flag never
\* goes back to false, and Built and Failed are final.
C6_StatusMonotonic ==
    [][ /\ StatusMovesForward(graphics_cache, pipelines, graphics_cache', pipelines')
        /\ StatusMovesForward(compute_cache, pipelines, compute_cache', pipelines')
        /\ \A i \in DOMAIN pipelines :
               /\ i \in DOMAIN pipelines'
               /\ pipelines'[i].key = pipelines[i].key
               /\ pipelines[i].is_built => pipelines'[i].is_built
      ]_vars

\* With asynchronous shaders, a key built at draw time has been finished by a
\* worker (it went through Building), and another key has failed.
C6_Witness ==
    /\ use_asynchronous_shaders
    /\ \E k \in DOMAIN builds.graphics :
           /\ StatusIn(graphics_cache, pipelines, k) = "Built"
           /\ graphics_cache[k] \notin build_queue
    /\ \E k \in DOMAIN graphics_cache :
           StatusIn(graphics_cache, pipelines, k) = "Failed"

\* The record SerializePipeline appended in this step, if any.
Appended(f, f2, kind, key) ==
    f2.records = Append(f.records, [kind |-> kind, key |-> key])

\* C7: the cache file grows by exactly one record, tagged CACHE_VERSION, in a
\* step that builds a new key successfully at draw time while a file name is
\* set, and in no other step: a failed build appends nothing, and nothing is
\* written while no file name is set.
C7_SerializeOnSuccess ==
    [][ /\ \A k \in (DOMAIN builds'.graphics) \ (DOMAIN builds.graphics) :
               IF graphics_cache'[k] # NULL /\ shader_cache_filename
               THEN Appended(file, file', "graphics", k) /\ file'.version = CACHE_VERSION
               ELSE file' = file
        /\ \A k \in (DOMAIN builds'.compute) \ (DOMAIN builds.compute) :
               IF compute_cache'[k] # NULL /\ shader_cache_filename
               THEN Appended(file, file', "compute", k) /\ file'.version = CACHE_VERSION
               ELSE file' = file
        /\ builds' = builds => Len(file'.records) <= Len(file.records)
        /\ ~shader_cache_filename' => file' = file
      ]_vars

\* A successful draw-time build was appended to the file, and a failed build of
\* the same run was not.
C7_Witness ==
    /\ shader_cache_filename
    /\ ret.op = "graphics" /\ ret.is_new /\ graphics_cache[ret.key] # NULL
    /\ file.version = CACHE_VERSION
    /\ file.records # <<>>
    /\ file.records[Len(file.records)] = [kind |-> "graphics", key |-> ret.key]
    /\ \E k \in DOMAIN graphics_cache :
           /\ graphics_cache[k] = NULL
           /\ \A i \in DOMAIN file.records : file.records[i].key # k

\* LoadDiskResources found a file written under another CACHE_VERSION.
StaleOpened == ld.opened # NoFile /\ ld.opened.version # CACHE_VERSION

\* C8: while LoadDiskResources loads a file whose version is not CACHE_VERSION,
\* no entry is counted, queued, built or inserted into either map, the progress
\* callback reports a total of 0, and the call proceeds to its return.
C8_StaleFileLoadsNothing ==
    StaleOpened
        => /\ ld.total = 0 /\ ld.built = 0 /\ ld.todo = <<>>
           /\ load_queue = <<>>
           /\ \A t \in Threads : wk[t].pc = "idle"
           /\ graphics_cache = EmptyMap /\ compute_cache = EmptyMap
           /\ pipelines = <<>>
           /\ ld.pc = "reading" => ENABLED LoadFinish
           /\ ld.pc = "waiting" => ld.reported = <<0, 0>> /\ ENABLED LoadWait

\* A stale file with two records has been read to its end.
C8_Witness ==
    /\ StaleOpened /\ Len(ld.opened.records) = MaxRecords
    /\ ld.pc = "waiting" /\ ld.reported = <<0, 0>>
    /\ graphics_cache = EmptyMap /\ compute_cache = EmptyMap

\* C9 as stated: every insertion into graphics_cache or compute_cache is made
\* while the inserting thread holds the mutex.
C9_AllInsertsLocked ==
    last_mut.by # "none" => last_mut.locked

\* C9: what the locking is. The work LoadDiskResources queues inserts into the
\* maps only while its thread holds the state.mutex local to that call, so no
\* two load threads insert at the same time; the draw thread inserts on a miss
\* holding no mutex.
C9_LoadInsertsLocked ==
    /\ last_mut.by \in Threads => last_mut.locked
    /\ last_mut.by = "draw" => ~last_mut.locked
    /\ \A t \in Threads : wk[t].pc = "locked" => state_mutex = t
    /\ Cardinality({ t \in Threads : wk[t].pc = "locked" }) <= 1

\* The draw thread has inserted, without a lock, into a map that holds an entry
\* a load worker inserted under the lock.
C9_Witness ==
    /\ last_mut.by = "draw" /\ ~last_mut.locked
    /\ \E k \in DOMAIN graphics_cache : Count(builds.graphics, k) = 0

(***************************************************************************)
(* The legacy decompiler: ControlFlowAnalyzer.                             *)
(***************************************************************************)
ExitMethods == {"Undetermined", "AlwaysReturn", "Conditional", "AlwaysEnd"}

\* One word of program_code as Scan reads it: the opcode class and the
\* flow_control fields dest_offset and num_instructions. "NOP" stands for every
\* opcode of the default case, "JMPC" for JMPC/JMPU, "CALLC" for CALLC/CALLU,
\* "IFC" for IFU/IFC.
Instr(op, dest, num) == [op |-> op, dest |-> dest, num |-> num]

Offsets == 0 .. (PROGRAM_END - 1)
Nums == {0, 1, 2}

PlainInstrs == { Instr("END", 0, 0), Instr("NOP", 0, 0) }

FlowInstrs ==
    { Instr(op, d, 0) : op \in {"JMPC", "LOOP"}, d \in Offsets } \cup
    { Instr(op, d, n) : op \in {"CALL", "CALLC", "IFC"}, d \in Offsets, n \in Nums }

\* The positions of the flow instructions of a program: at most two per program.
FlowSlots == { S \in SUBSET (1 .. PROGRAM_END) : Cardinality(S) <= 2 }

MainOffsets == {0, 1}

\* The instructions of the programs text is generated from: one of each case
\* of CompileInstr that is not a flow instruction.
TextInstrs ==
    { Instr(op, 0, 0) : op \in {"END", "ADD", "MUL", "RCP", "RSQ", "MAD", "EMIT",
                                "ARITH_OTHER", "MAD_OTHER", "FLOW_OTHER"} }

TextFlows ==
    { Instr("CALL", d, 1) : d \in Offsets } \cup { Instr("IFC", PROGRAM_END - 1, 2) }

TextSlots == { S \in SUBSET (1 .. PROGRAM_END) : Cardinality(S) <= 1 }

\* The number of components the destination mask of a swizzle enables.
DestMasks == {0, 4}

\* Variants of the two merges that let the first branch decide.
ParallelExitLeft(a, b) == IF a = "Undetermined" THEN b ELSE a

SeriesExitLeft(a, b) == IF a = "AlwaysReturn" THEN b ELSE a

\* ParallelExit (lines 93-104).
ParallelExit(a, b) ==
    IF a = "Undetermined" THEN b
    ELSE IF b = "Undetermined" THEN a
    ELSE IF a = b THEN a
    ELSE "Conditional"

\* SeriesExit (lines 107-124); the DEBUG_ASSERT compiles to nothing in a release
\* build.
SeriesExit(a, b) ==
    IF a = "Undetermined" THEN "Undetermined"
    ELSE IF a = "AlwaysReturn" THEN b
    ELSE IF b = "Undetermined" \/ b = "AlwaysEnd" THEN "AlwaysEnd"
    ELSE "Conditional"

\* One call of a merge function and what it returned.
Merge(fn, a, b, result) == [fn |-> fn, a |-> a, b |-> b, result |-> result]

\* A call of ParallelExit on any two exit methods.
CallParallelExit ==
    /\ cfa.pc = "off" /\ Len(cfa.merges) < MaxMerges
    /\ \E a, b \in ExitMethods :
           cfa' = [cfa EXCEPT !.merges =
                       Append(@, Merge("ParallelExit", a, b, ParallelExit(a, b)))]
    /\ UNCHANGED <<cacheVars, otherVars>>

\* A call of SeriesExit; its callers handle AlwaysEnd before they call
\* (lines 109, 151, 158, 186).
CallSeriesExit ==
    /\ cfa.pc = "off" /\ Len(cfa.merges) < MaxMerges
    /\ \E a \in ExitMethods \ {"AlwaysEnd"}, b \in ExitMethods :
           cfa' = [cfa EXCEPT !.merges =
                       Append(@, Merge("SeriesExit", a, b, SeriesExit(a, b)))]
    /\ UNCHANGED <<cacheVars, otherVars>>

\* One activation of the constructor, of AddSubroutine or of Scan. `labels` is
\* the local subroutine.labels of an AddSubroutine activation; `offset` is the
\* flow instruction a Scan activation stopped at; `vals` are the results its
\* calls have returned so far; `added` are the labels inserted through the
\* `labels` reference of a Scan activation, by itself and by the scans it called.
Frame(fn, begin, end) ==
    [ fn |-> fn, begin |-> begin, end |-> end, labels |-> {}, offset |-> 0,
      entered |-> FALSE, vals |-> <<>>, added |-> {} ]

Top(stack) == stack[Len(stack)]
Pop(stack) == SubSeq(stack, 1, Len(stack) - 1)
SetTop(stack, f) == [stack EXCEPT ![Len(stack)] = f]

MapPut(map, key, value) ==
    [k \in (DOMAIN map) \cup {key} |-> IF k = key THEN value ELSE map[k]]

\* The std::set<u32>& labels a Scan activation was given: the labels of the
\* nearest AddSubroutine activation below it.
LabelOwner(stack) ==
    CHOOSE i \in DOMAIN stack :
        /\ stack[i].fn = "AddSubroutine"
        /\ \A j \in DOMAIN stack : j > i => stack[j].fn # "AddSubroutine"

\* The opcodes Scan has a case for (lines 137-173); every other opcode falls
\* to the default case.
ScanOps == {"END", "JMPC", "CALL", "CALLC", "LOOP", "IFC"}

\* The for loop of Scan: the first offset from `offset` on that holds an
\* instruction of a non-default case, or -1 when the loop runs to `end` or to
\* PROGRAM_END.
RECURSIVE NextStop(_, _, _)
NextStop(code, offset, end) ==
    IF offset = end \/ offset = PROGRAM_END THEN -1
    ELSE IF code[offset + 1].op \notin ScanOps THEN NextStop(code, offset + 1, end)
    ELSE offset

\* "throw DecompileFail(msg)": the stack unwinds to the catch of DecompileProgram,
\* which returns "".
Throw(c, msg) ==
    [c EXCEPT !.pc = "failed", !.stack = <<>>, !.rv = "none", !.error = msg,
              !.result = "", !.steps = @ + 1]

\* "return exit_method = r" of the Scan activation on top of the stack.
ScanReturn(c, r) ==
    LET f == Top(c.stack)
        below == Pop(c.stack)
    IN [c EXCEPT !.stack = IF below # <<>> /\ Top(below).fn = "Scan"
                           THEN SetTop(below, [Top(below) EXCEPT
                                                  !.added = @ \cup f.added])
                           ELSE below,
                 !.rv = r,
                 !.exit_method_map = MapPut(@, <<f.begin, f.end>>, r),
                 !.analyses = MapPut(@, <<f.begin, f.end>>,
                                     [exit_method |-> r, labels |-> f.added]),
                 !.steps = @ + 1]

\* The Scan activation `f` calls Scan or AddSubroutine.
ScanCalls(c, f, fn, begin, end) ==
    [c EXCEPT !.stack = Append(SetTop(@, f), Frame(fn, begin, end)), !.rv = "none",
              !.steps = @ + 1]

\* DecompileProgram (lines 933-946) up to the first call of the constructor
\* (lines 61-65): AddSubroutine(main_offset, PROGRAM_END).
DecompileProgramOver(Slots, Flows, Plains, Masks, Sanitize) ==
    /\ cfa.pc = "off"
    /\ \E S \in Slots, main \in MainOffsets, mask \in Masks, sanitize \in Sanitize :
       \E flow \in [S -> Flows], plain \in [(1 .. PROGRAM_END) \ S -> Plains] :
           cfa' = [cfa EXCEPT
                     !.pc = "analyze",
                     !.program_code = [i \in 1 .. PROGRAM_END |->
                                          IF i \in S THEN flow[i] ELSE plain[i]],
                     !.swizzle_data = [i \in 1 .. PROGRAM_END |-> mask],
                     !.sanitize_mul = sanitize,
                     !.main_offset = main,
                     !.steps = @ + 1,
                     !.stack = << Frame("ControlFlowAnalyzer", main, PROGRAM_END),
                                  Frame("AddSubroutine", main, PROGRAM_END) >>]
    /\ UNCHANGED <<cacheVars, otherVars>>

\* DecompileProgram on programs of END, flow instructions and instructions
\* without a case of their own.
DecompileProgram ==
    DecompileProgramOver(FlowSlots, FlowInstrs, PlainInstrs, {4}, {FALSE})

\* DecompileProgram on programs of arithmetic instructions with at most one
\* flow instruction, for both values of sanitize_mul and for swizzles whose
\* destination mask enables every component or none.
DecompileProgramText ==
    DecompileProgramOver(TextSlots, TextFlows, TextInstrs, DestMasks, BOOLEAN)

Running == cfa.pc = "analyze" /\ cfa.stack # <<>>

\* AddSubroutine, lines 81-86: the lookup, and the call of Scan when the range
\* is not a subroutine yet.
AddSubroutine ==
    /\ Running /\ cfa.rv = "none"
    /\ LET f == Top(cfa.stack)
           found == { s \in cfa.subroutines : s.begin = f.begin /\ s.end = f.end }
       IN /\ f.fn = "AddSubroutine" /\ ~f.entered
          /\ cfa' = IF found # {}
                    THEN [cfa EXCEPT !.stack = Pop(@),
                                     !.rv = (CHOOSE s \in found : TRUE).exit_method,
                                     !.steps = @ + 1]
                    ELSE [cfa EXCEPT
                            !.stack = Append(SetTop(@, [f EXCEPT !.entered = TRUE]),
                                             Frame("Scan", f.begin, f.end)),
                            !.steps = @ + 1]
    /\ UNCHANGED <<cacheVars, otherVars>>

\* A variant of the emplace that reports every key as new.
InsertedAlways(map, key) == TRUE

\* `inserted` of exit_method_map.emplace (lines 128-131).
Inserted(map, key) == key \notin DOMAIN map

\* One more run of the body of Scan for the range `key`.
Scanned(scans, key) ==
    MapPut(scans, key, IF key \in DOMAIN scans THEN scans[key] + 1 ELSE 1)

\* subroutines.insert (line 89): a std::set keeps one element per (begin, end).
Insert(subroutines, subroutine) ==
    IF \E s \in subroutines : s.begin = subroutine.begin /\ s.end = subroutine.end
    THEN subroutines ELSE subroutines \cup {subroutine}

\* A variant of line 87 that lets an Undetermined subroutine through.
RecursionNeverDetected(exit_method) == FALSE

\* Line 87: "if (subroutine.exit_method == ExitMethod::Undetermined)".
RecursionDetected(exit_method) == exit_method = "Undetermined"

\* AddSubroutine, lines 86-89: Scan has returned.
AddSubroutineReturns ==
    /\ Running /\ cfa.rv # "none"
    /\ LET f == Top(cfa.stack) IN
       /\ f.fn = "AddSubroutine"
       /\ cfa' = IF RecursionDetected(cfa.rv)
                 THEN Throw(cfa, "Recursive function detected")
                 ELSE [cfa EXCEPT
                         !.stack = Pop(@),
                         !.steps = @ + 1,
                         !.subroutines = Insert(@,
                               [begin |-> f.begin, end |-> f.end,
                                exit_method |-> cfa.rv, labels |-> f.labels])]
    /\ UNCHANGED <<cacheVars, otherVars>>

\* Scan at the instruction it stopped at (the switch, lines 135-193): END
\* returns, every flow instruction makes its first call.
ScanAt(c, f) ==
    LET instr == c.program_code[f.offset + 1]
        owner == LabelOwner(c.stack)
    IN  CASE instr.op = "END"  -> ScanReturn(c, "AlwaysEnd")
          [] instr.op = "JMPC" ->
                 ScanCalls([c EXCEPT !.stack[owner].labels = @ \cup {instr.dest}],
                           [f EXCEPT !.added = @ \cup {instr.dest}],
                           "Scan", f.offset + 1, f.end)
          [] instr.op \in {"CALL", "CALLC"} ->
                 ScanCalls(c, f, "AddSubroutine", instr.dest, instr.dest + instr.num)
          [] instr.op = "LOOP" ->
                 ScanCalls(c, f, "AddSubroutine", f.offset + 1, instr.dest + 1)
          [] instr.op = "IFC"  ->
                 ScanCalls(c, f, "AddSubroutine", f.offset + 1, instr.dest)

\* The first read of the loop is program_code[begin] with begin beyond the array.
ReadsPastEnd(c, f) ==
    /\ Inserted(c.exit_method_map, <<f.begin, f.end>>)
    /\ f.begin > PROGRAM_END /\ f.begin # f.end

\* Scan, lines 128-134 and the loop up to the first instruction that is not of
\* the default case: the emplace into exit_method_map, the early return when the
\* range is there already, and the walk over the range.
Scan ==
    /\ Running /\ cfa.rv = "none"
    /\ LET f == Top(cfa.stack)
           key == <<f.begin, f.end>>
       IN /\ f.fn = "Scan" /\ ~f.entered
          /\ ~ReadsPastEnd(cfa, f)
          /\ cfa' =
               IF ~Inserted(cfa.exit_method_map, key)
               THEN [cfa EXCEPT !.stack = Pop(@), !.rv = cfa.exit_method_map[key],
                                !.repeats = @ \cup
                                    { [begin |-> f.begin, end |-> f.end,
                                       exit_method |-> cfa.exit_method_map[key],
                                       labels |-> {}] },
                                !.steps = @ + 1]
               ELSE LET c1 == [cfa EXCEPT !.exit_method_map =
                                              MapPut(@, key, "Undetermined"),
                                          !.scans = Scanned(@, key)]
                        stop == NextStop(cfa.program_code, f.begin, f.end)
                    IN IF stop = -1 THEN ScanReturn(c1, "AlwaysReturn")
                       ELSE ScanAt(c1, [f EXCEPT !.entered = TRUE, !.offset = stop])
    /\ UNCHANGED <<cacheVars, otherVars>>

\* Scan(dest_offset + num_instructions, end) of the IF case with a begin beyond
\* PROGRAM_END: program_code[offset] is read outside the array. What the scan
\* finds in the memory behind the array decides its result: any exit method, or
\* the read faults and the process ends.
ScanReadsPastEnd ==
    /\ Running /\ cfa.rv = "none"
    /\ LET f == Top(cfa.stack) IN
       /\ f.fn = "Scan" /\ ~f.entered
       /\ ReadsPastEnd(cfa, f)
       /\ LET c1 == [cfa EXCEPT !.scans = Scanned(@, <<f.begin, f.end>>)] IN
          \/ \E r \in ExitMethods : cfa' = ScanReturn(c1, r)
          \/ cfa' = [c1 EXCEPT !.pc = "crashed", !.stack = <<>>, !.steps = @ + 1]
    /\ UNCHANGED <<cacheVars, otherVars>>

\* A variant of line 151 that never stops at the call.
CalleeNeverEnds(exit_method) == FALSE

\* Line 151: "if (call.exit_method == ExitMethod::AlwaysEnd)".
CalleeEnds(exit_method) == exit_method = "AlwaysEnd"

\* Line 170: the exit method of a call that may not be taken.
ConditionalCall(exit_method) == ParallelExit(exit_method, "AlwaysReturn")

\* Scan after a call has returned (the rest of each case of the switch).
ScanResumes ==
    /\ Running /\ cfa.rv # "none"
    /\ Top(cfa.stack).fn = "Scan"
    /\ LET f == [Top(cfa.stack) EXCEPT !.vals = Append(@, cfa.rv)]
           v == f.vals
           n == Len(v)
           instr == cfa.program_code[f.offset + 1]
           both == ParallelExit(v[1], IF instr.num # 0 /\ n >= 2 THEN v[2]
                                      ELSE "AlwaysReturn")
       IN cfa' =
            CASE instr.op = "JMPC" ->
                   IF n = 1 THEN ScanCalls(cfa, f, "Scan", instr.dest, f.end)
                   ELSE ScanReturn(cfa, ParallelExit(v[1], v[2]))
              [] instr.op = "CALL" ->
                   IF n = 1
                   THEN IF CalleeEnds(v[1]) THEN ScanReturn(cfa, "AlwaysEnd")
                        ELSE ScanCalls(cfa, f, "Scan", f.offset + 1, f.end)
                   ELSE ScanReturn(cfa, SeriesExit(v[1], v[2]))
              [] instr.op = "LOOP" ->
                   IF n = 1
                   THEN IF v[1] = "AlwaysEnd" THEN ScanReturn(cfa, "AlwaysEnd")
                        ELSE ScanCalls(cfa, f, "Scan", instr.dest + 1, f.end)
                   ELSE ScanReturn(cfa, SeriesExit(v[1], v[2]))
              [] instr.op = "CALLC" ->
                   IF n = 1 THEN ScanCalls(cfa, f, "Scan", f.offset + 1, f.end)
                   ELSE ScanReturn(cfa, SeriesExit(ConditionalCall(v[1]), v[2]))
              [] instr.op = "IFC" ->
                   IF n = 1 /\ instr.num # 0
                   THEN ScanCalls(cfa, f, "AddSubroutine", instr.dest,
                                  instr.dest + instr.num)
                   ELSE IF n = (IF instr.num # 0 THEN 2 ELSE 1)
                   THEN IF both = "AlwaysEnd" THEN ScanReturn(cfa, "AlwaysEnd")
                        ELSE ScanCalls(cfa, f, "Scan", instr.dest + instr.num, f.end)
                   ELSE ScanReturn(cfa, SeriesExit(both, v[n]))
    /\ UNCHANGED <<cacheVars, otherVars>>

\* The constructor, lines 65-67: the check of program_main.exit_method.
ControlFlowAnalyzer ==
    /\ Running /\ cfa.rv # "none"
    /\ Top(cfa.stack).fn = "ControlFlowAnalyzer"
    /\ cfa' = IF cfa.rv # "AlwaysEnd"
              THEN Throw(cfa, "Program does not always end")
              ELSE [cfa EXCEPT !.pc = "analyzed", !.stack = <<>>, !.rv = "none",
                               !.steps = @ + 1]
    /\ UNCHANGED <<cacheVars, otherVars>>

(***************************************************************************)
(* The legacy decompiler: GLSLGenerator.  The shader text is a sequence of *)
(* lines; a line is the kind of statement AddLine was given and the        *)
(* numbers formatted into it.                                              *)
(***************************************************************************)
Line(kind, a, b) == [kind |-> kind, a |-> a, b |-> b]

\* What CompileInstr, CompileRange and Generate hand back: the lines added, the
\* next offset, and how the call left: "ok" (returned), "fail" (threw
\* DecompileFail), "assert" (the ASSERT of GetSubroutine failed), "oob" (read
\* program_code beyond PROGRAM_END), "diverge" (the loop of CompileRange came
\* back to an offset it had compiled: it never leaves).
Compiled(lines, next, status) == [lines |-> lines, next |-> next, status |-> status]

\* GetSubroutine (lines 285-289): the subroutines with that range; none makes
\* the ASSERT fail.
GetSubroutine(c, begin, end) ==
    { sub \in c.subroutines : sub.begin = begin /\ sub.end = end }

\* CallSubroutine (lines 370-379).
CallSubroutine(subroutine) ==
    IF subroutine.exit_method = "AlwaysEnd"
    THEN << Line("call", subroutine.begin, subroutine.end), Line("return true", 0, 0) >>
    ELSE IF subroutine.exit_method = "Conditional"
    THEN << Line("if call return true", subroutine.begin, subroutine.end) >>
    ELSE << Line("call", subroutine.begin, subroutine.end) >>

\* SetDest (lines 389-419): one assignment, or nothing when the destination
\* mask of the swizzle enables no component (lines 401-403). `mask` is the
\* number of enabled components.
SetDest(mask, value, offset) ==
    IF mask = 0 THEN <<>> ELSE << Line(value, offset, 0) >>

\* A call of a subroutine inside a block: the opening line, GetSubroutine,
\* CallSubroutine (the closing line is added by the caller).
BlockCall(c, opening, begin, end) ==
    LET subs == GetSubroutine(c, begin, end) IN
    IF subs = {} THEN Compiled(<< opening >>, 0, "assert")
    ELSE Compiled(<< opening >> \o CallSubroutine(CHOOSE sub \in subs : TRUE), 0, "ok")

ExitOf(c, begin, end) == (CHOOSE sub \in GetSubroutine(c, begin, end) : TRUE).exit_method

\* A variant of the MUL case that always writes the operator.
MulValueBare(sanitize_mul) == "assign a * b"

\* The value a MUL assigns (lines 463-468).
MulValue(sanitize_mul) ==
    IF sanitize_mul THEN "assign sanitize_mul(a, b)" ELSE "assign a * b"

\* CompileInstr (lines 428-812). "ADD" stands for the arithmetic opcodes that
\* emit one assignment whatever sanitize_mul is, "ARITH_OTHER" for the default
\* case of line 609, "MAD_OTHER" for the else branch of line 653, "EMIT" for
\* EMIT/SETEMIT, "FLOW_OTHER" for the default case of line 799.
CompileInstr(c, offset) ==
    LET instr == c.program_code[offset + 1]
        mask == c.swizzle_data[offset + 1]
        op == instr.op
        comment == << Line("comment", offset, 0) >>
        close == << Line("close", 0, 0) >>
        Ok(lines, next) == Compiled(comment \o lines, next, "ok")
        Fail == Compiled(comment, offset, "fail")
        After(r, lines, next) ==
            IF r.status # "ok" THEN Compiled(comment \o r.lines, offset, r.status)
            ELSE Ok(r.lines \o lines, next)
    IN CASE op = "ADD" -> Ok(SetDest(mask, "assign", offset), offset + 1)
         [] op = "MUL" -> Ok(SetDest(mask, MulValue(c.sanitize_mul), offset), offset + 1)
         [] op = "RCP" ->
              Ok((IF ~c.sanitize_mul THEN << Line("if (a.x != 0.0)", offset, 0) >>
                  ELSE <<>>) \o SetDest(mask, "assign 1.0 / a.x", offset), offset + 1)
         [] op = "RSQ" ->
              Ok((IF ~c.sanitize_mul THEN << Line("if (a.x > 0.0)", offset, 0) >>
                  ELSE <<>>) \o SetDest(mask, "assign inversesqrt(a.x)", offset),
                 offset + 1)
         [] op = "ARITH_OTHER" -> Fail
         [] op = "MAD" ->
              Ok(SetDest(mask, IF c.sanitize_mul THEN "assign sanitize_mul(a, b) + c"
                               ELSE "assign a * b + c", offset), offset + 1)
         [] op = "MAD_OTHER" -> Fail
         [] op = "END" -> Ok(<< Line("return true", 0, 0) >>, PROGRAM_END)
         [] op = "JMPC" ->
              Ok(<< Line("if open", 0, 0), Line("jmp_to", instr.dest, 0) >> \o close,
                 offset + 1)
         [] op \in {"CALL", "CALLC"} ->
              LET Called(r) ==
                      After(r, close,
                            IF r.status = "ok" /\ op = "CALL"
                               /\ ExitOf(c, instr.dest, instr.dest + instr.num)
                                      = "AlwaysEnd"
                            THEN PROGRAM_END ELSE offset + 1)
              IN Called(BlockCall(c, Line(IF op = "CALL" THEN "open" ELSE "if open",
                                          0, 0),
                                  instr.dest, instr.dest + instr.num))
         [] op \in {"NOP", "EMIT"} -> Ok(<<>>, offset + 1)
         [] op = "IFC" ->
              LET Branches(if_sub, else_sub) ==
                      IF if_sub.status # "ok" \/ instr.num = 0
                      THEN After(if_sub, close, instr.dest)
                      ELSE IF else_sub.status # "ok"
                      THEN Compiled(comment \o if_sub.lines \o else_sub.lines, offset,
                                    "assert")
                      ELSE Ok(if_sub.lines \o else_sub.lines \o close,
                              IF ExitOf(c, offset + 1, instr.dest) = "AlwaysEnd"
                                 /\ ExitOf(c, instr.dest, instr.dest + instr.num)
                                        = "AlwaysEnd"
                              THEN PROGRAM_END ELSE instr.dest + instr.num)
              IN Branches(BlockCall(c, Line("if open", 0, 0), offset + 1, instr.dest),
                          BlockCall(c, Line("else open", 0, 0), instr.dest,
                                    instr.dest + instr.num))
         [] op = "LOOP" ->
              LET Body(r) ==
                      IF r.status # "ok" THEN After(r, <<>>, offset)
                      ELSE Ok(<< Line("address_registers.z =", 0, 0) >> \o r.lines
                                 \o close,
                              IF ExitOf(c, offset + 1, instr.dest + 1) = "AlwaysEnd"
                              THEN PROGRAM_END ELSE instr.dest + 1)
              IN Body(BlockCall(c, Line("for open", offset, 0), offset + 1,
                                instr.dest + 1))
         [] op = "FLOW_OTHER" -> Fail

\* The loop of CompileRange (lines 822-824) from program_counter on. The offset
\* CompileInstr returns depends on the offset alone, so a loop that comes back
\* to an offset repeats for ever, adding lines each time round.
RECURSIVE CompileFrom(_, _, _, _, _)
CompileFrom(c, program_counter, limit, visited, lines) ==
    IF ~(program_counter < limit) THEN Compiled(lines, program_counter, "ok")
    ELSE IF program_counter >= PROGRAM_END THEN Compiled(lines, program_counter, "oob")
    ELSE IF program_counter \in visited THEN Compiled(lines, program_counter, "diverge")
    ELSE LET Step(r) ==
                 IF r.status # "ok"
                 THEN Compiled(lines \o r.lines, program_counter, r.status)
                 ELSE CompileFrom(c, r.next, limit, visited \cup {program_counter},
                                  lines \o r.lines)
         IN Step(CompileInstr(c, program_counter))

\* CompileRange (lines 820-826).
CompileRange(c, begin, end) ==
    CompileFrom(c, begin, IF begin > end THEN PROGRAM_END ELSE end, {}, <<>>)

Least(S) == CHOOSE x \in S : \A y \in S : x <= y

\* The loop over the labels of a subroutine (lines 887-903) from `label` on; a
\* label added at line 898 is visited in its turn.
RECURSIVE CompileLabels(_, _, _, _, _)
CompileLabels(c, subroutine, labels, label, lines) ==
    LET NextLabel(later) == IF later = {} THEN subroutine.end ELSE Least(later)
        Rest(labels2, out, rest) ==
            IF rest = {} THEN Compiled(out, 0, "ok")
            ELSE CompileLabels(c, subroutine, labels2, Least(rest), out)
        Added(labels2, out) == Rest(labels2, out, { l \in labels2 : l > label })
        Case(r, inside) ==
            Added(IF inside THEN labels \cup {r.next} ELSE labels,
                  lines \o << Line("case", label, 0) >> \o r.lines
                        \o (IF inside THEN << Line("jmp_to", r.next, 0) >> ELSE <<>>)
                        \o << Line("close", 0, 0) >>)
        Range(next_label, r) ==
            IF r.status # "ok" THEN Compiled(lines \o r.lines, 0, r.status)
            ELSE Case(r, r.next > next_label /\ r.next # PROGRAM_END)
        Label(next_label) == Range(next_label, CompileRange(c, label, next_label))
    IN Label(NextLabel({ l \in labels : l > label }))

\* The definition of one subroutine (lines 870-915).
SubroutineText(c, subroutine) ==
    LET head == << Line("bool sub() {", subroutine.begin, subroutine.end) >>
        foot == << Line("close", 0, 0) >>
        Plain(plain) ==
            IF plain.status # "ok" THEN Compiled(head \o plain.lines, 0, plain.status)
            ELSE Compiled(head \o plain.lines
                               \o (IF plain.next # PROGRAM_END
                                   THEN << Line("return false", 0, 0) >> ELSE <<>>)
                               \o foot, 0, "ok")
        Cases(cases) ==
            IF cases.status # "ok" THEN Compiled(head \o cases.lines, 0, cases.status)
            ELSE Compiled(head \o cases.lines
                               \o << Line("default: return false", 0, 0),
                                     Line("close", 0, 0), Line("close", 0, 0),
                                     Line("return false", 0, 0) >>
                               \o foot, 0, "ok")
        Labelled(labels) ==
            Cases(CompileLabels(c, subroutine, labels, Least(labels),
                                << Line("uint jmp_to =", subroutine.begin, 0),
                                   Line("while (true) {", 0, 0),
                                   Line("switch (jmp_to) {", 0, 0) >>))
    IN IF subroutine.labels = {}
       THEN Plain(CompileRange(c, subroutine.begin, subroutine.end))
       ELSE Labelled(subroutine.labels \cup {subroutine.begin})

\* The subroutines in the order of std::set<Subroutine> (operator<, lines 53-55).
SubroutineBefore(s, t) == s.begin < t.begin \/ (s.begin = t.begin /\ s.end <= t.end)

RECURSIVE InOrder(_)
InOrder(S) ==
    IF S = {} THEN <<>>
    ELSE LET first == CHOOSE s \in S : \A t \in S : SubroutineBefore(s, t)
         IN << first >> \o InOrder(S \ {first})

\* The definitions of the subroutines `order[i..]` (lines 869-918).
RECURSIVE Definitions(_, _, _, _)
Definitions(c, order, i, lines) ==
    IF i > Len(order) THEN Compiled(lines, 0, "ok")
    ELSE LET Defined(r) ==
                 IF r.status # "ok" THEN Compiled(lines \o r.lines, 0, r.status)
                 ELSE Definitions(c, order, i + 1, lines \o r.lines)
         IN Defined(SubroutineText(c, order[i]))

\* Generate (lines 828-919).
Generate(c) ==
    LET helper == IF c.sanitize_mul
                  THEN << Line("vec4 sanitize_mul(vec4 lhs, vec4 rhs) {", 0, 0) >>
                  ELSE <<>>
        Declarations(order) ==
            helper \o << Line("vec4 get_offset_register() {", 0, 0),
                         Line("registers", 0, 0) >>
                   \o [i \in 1 .. Len(order) |->
                          Line("bool sub();", order[i].begin, order[i].end)]
        Written(order, head, main) ==
            IF main.status # "ok" THEN Compiled(head \o main.lines, 0, main.status)
            ELSE Definitions(c, order, 1,
                             head \o main.lines \o << Line("close", 0, 0) >>)
        Ordered(order) ==
            Written(order, Declarations(order),
                    BlockCall(c, Line("bool exec_shader() {", 0, 0), c.main_offset,
                              PROGRAM_END))
    IN Ordered(InOrder(c.subroutines))

\* The constructor of GLSLGenerator (lines 268-277) and the rest of
\* DecompileProgram (lines 939-945): Generate runs, and the text it wrote is
\* returned, or "" when it threw DecompileFail. A failed ASSERT ends the
\* process. A CompileRange that never leaves its loop adds lines until the
\* string can grow no more; DecompileProgram does not return a text. After a
\* read beyond program_code any of this can follow.
GLSLGenerator ==
    /\ cfa.pc = "analyzed"
    /\ \E g \in {Generate(cfa)} :
       LET Returns(lines) ==
               [cfa EXCEPT !.pc = "generated", !.shader_source = lines,
                           !.result = IF lines = <<>> THEN "" ELSE "text",
                           !.steps = @ + 1]
           Ends(how) == [cfa EXCEPT !.pc = how, !.steps = @ + 1]
       IN \/ g.status = "ok" /\ cfa' = Returns(g.lines)
          \/ g.status = "fail" /\ cfa' = Throw(cfa, "Unhandled instruction")
          \/ g.status = "assert" /\ cfa' = Ends("crashed")
          \/ g.status = "diverge" /\ cfa' = Ends("diverged")
          \/ /\ g.status = "oob"
             /\ \/ cfa' = Returns(g.lines \o << Line("unknown", 0, 0) >>)
                \/ cfa' = Throw(cfa, "Unhandled instruction")
                \/ \E how \in {"crashed", "diverged"} : cfa' = Ends(how)
    /\ UNCHANGED <<cacheVars, otherVars>>

(***************************************************************************)
(* Specification of the control-flow analyzer.                             *)
(***************************************************************************)
InitCFA ==
    /\ InitDrawOnly
    /\ ~use_asynchronous_shaders

NextCFA ==
    \/ DecompileProgram
    \/ AddSubroutine
    \/ AddSubroutineReturns
    \/ Scan
    \/ ScanReadsPastEnd
    \/ ScanResumes
    \/ ControlFlowAnalyzer
    \/ GLSLGenerator

SpecCFA == InitCFA /\ [][NextCFA]_vars

(***************************************************************************)
(* Specification of the decompiler on arithmetic programs.                 *)
(***************************************************************************)
NextText ==
    \/ DecompileProgramText
    \/ AddSubroutine
    \/ AddSubroutineReturns
    \/ Scan
    \/ ScanReadsPastEnd
    \/ ScanResumes
    \/ ControlFlowAnalyzer
    \/ GLSLGenerator

SpecText == InitCFA /\ [][NextText]_vars

(***************************************************************************)
(* Specification of the two merge functions on their own.                  *)
(***************************************************************************)
NextExit ==
    \/ CallParallelExit
    \/ CallSeriesExit

SpecExit == InitCFA /\ [][NextExit]_vars

(***************************************************************************)
(* Properties of the control-flow analyzer.                                *)
(***************************************************************************)
HasEnd(code) == \E i \in DOMAIN code : code[i].op = "END"

\* The subroutine (main_offset, PROGRAM_END) of the finished analysis.
MainSubroutines ==
    { s \in cfa.subroutines : s.begin = cfa.main_offset /\ s.end = PROGRAM_END }

\* C10 as stated: an accepted program has its main subroutine resolved to
\* AlwaysEnd, a program with no END instruction is not accepted, and a
\* rejected program makes DecompileProgram return the empty string.
C10_AcceptedAlwaysEnds ==
    /\ cfa.pc = "analyzed"
           => /\ MainSubroutines # {}
              /\ \A s \in MainSubroutines : s.exit_method = "AlwaysEnd"
              /\ HasEnd(cfa.program_code)
    /\ cfa.pc = "failed" => cfa.result = ""

\* A scan of this analysis started beyond PROGRAM_END.
ScannedPastEnd ==
    \E key \in DOMAIN cfa.exit_method_map : key[1] > PROGRAM_END /\ key[1] # key[2]

\* The part of C10 that does not depend on the memory behind program_code: an
\* accepted program has its main subroutine resolved to AlwaysEnd, a rejected
\* one returns the empty string, and a program with no END is accepted only
\* after a scan that read beyond PROGRAM_END.
C10_MainResolved ==
    /\ cfa.pc = "analyzed"
           => /\ MainSubroutines # {}
              /\ \A s \in MainSubroutines : s.exit_method = "AlwaysEnd"
              /\ ~HasEnd(cfa.program_code) => ScannedPastEnd
    /\ cfa.pc = "failed" => cfa.result = ""

\* A program without END was accepted: its IF sent the scan beyond PROGRAM_END.
C10_Witness ==
    /\ cfa.pc = "analyzed" /\ ~HasEnd(cfa.program_code)
    /\ ScannedPastEnd
    /\ \A s \in MainSubroutines : s.exit_method = "AlwaysEnd"


(***************************************************************************)
(* Recursion and termination of the analysis.                              *)
(***************************************************************************)
\* The scan has reached a call (AddSubroutine is entered from CALL, CALLC,
\* LOOP or IF) whose target range is in the memo with value Undetermined.
RecursiveCallReached ==
    /\ Running /\ cfa.rv = "none"
    /\ LET f == Top(cfa.stack) IN
       /\ f.fn = "AddSubroutine" /\ ~f.entered
       /\ <<f.begin, f.end>> \in DOMAIN cfa.exit_method_map
       /\ cfa.exit_method_map[<<f.begin, f.end>>] = "Undetermined"

RecursionError ==
    /\ cfa.pc = "failed" /\ cfa.error = "Recursive function detected"
    /\ cfa.result = ""

\* DecompileProgram is past the analysis (accepted, rejected, or ended by a
\* faulting read) or over altogether.
AnalysisOver == cfa.pc \in {"analyzed", "generated", "failed", "crashed", "diverged"}

\* The call of Scan that AddSubroutine makes for such a range is pending.
RecursionPending ==
    /\ Running /\ cfa.rv = "none" /\ Len(cfa.stack) >= 2
    /\ LET f == Top(cfa.stack)
           g == Top(Pop(cfa.stack))
       IN /\ f.fn = "Scan" /\ ~f.entered
          /\ g.fn = "AddSubroutine" /\ g.entered
          /\ g.begin = f.begin /\ g.end = f.end
          /\ <<f.begin, f.end>> \in DOMAIN cfa.exit_method_map
          /\ cfa.exit_method_map[<<f.begin, f.end>>] = "Undetermined"

\* Scan has handed Undetermined back to AddSubroutine.
RecursionReturned ==
    /\ Running /\ cfa.rv = "Undetermined"
    /\ Top(cfa.stack).fn = "AddSubroutine"

\* The ranges a scan can be asked for: dest_offset is below PROGRAM_END and
\* num_instructions is one of Nums.
MaxOffset == (PROGRAM_END - 1) + (CHOOSE n \in Nums : \A m \in Nums : m <= n)
ScanKeys == (0 .. MaxOffset) \X (0 .. MaxOffset)

\* What bounds the analysis: the memo holds only ranges of ScanKeys; the
\* call stack holds the constructor, two activations per range in progress and
\* one call being answered; a range costs at most twelve steps (its scan
\* makes at most three calls) on top of the five of the main subroutine.
AnalysisBounded ==
    /\ DOMAIN cfa.exit_method_map \subseteq ScanKeys
    /\ Len(cfa.stack) <= 3 + 2 * Cardinality(DOMAIN cfa.exit_method_map)
    /\ cfa.steps <= 5 + 12 * Cardinality(DOMAIN cfa.exit_method_map)

\* C11: whenever the scan reaches a call whose target range is still in
\* progress (memo value Undetermined), the next steps of the analysis are the
\* memo hit, the return of Undetermined and the recursion-detected error;
\* and every analysis comes to an end: it can always take a step until it is
\* over, and the number of its steps and the depth of its recursion are
\* bounded by the number of ranges.
C11_RecursionFails ==
    [][ /\ RecursiveCallReached => RecursionPending'
        /\ RecursionPending => RecursionReturned'
        /\ RecursionReturned => RecursionError'
        /\ AnalysisBounded'
        /\ (~AnalysisOver => ENABLED NextCFA)' ]_vars

\* Word number i (counted from 1) of the program is a CALL of the range
\* (begin, end).
CallsRange(code, i, begin, end) ==
    /\ code[i].op = "CALL" /\ code[i].dest = begin
    /\ code[i].dest + code[i].num = end

\* Main (1, PROGRAM_END) calls (0, 1) at offset 1, and (0, 1) calls main at
\* offset 0: a cycle of two subroutines, rejected as recursion.
C11_Witness ==
    /\ RecursionError
    /\ cfa.main_offset = 1
    /\ CallsRange(cfa.program_code, 2, 0, 1)
    /\ CallsRange(cfa.program_code, 1, 1, PROGRAM_END)


(***************************************************************************)
(* Failures of DecompileProgram.                                           *)
(***************************************************************************)
\* The generator read program_code beyond PROGRAM_END.
GeneratedPastEnd == cfa.pc = "analyzed" /\ Generate(cfa).status = "oob"

\* C12: DecompileProgram always returns: the empty string when the analysis
\* or the generation failed, a non-empty text otherwise; no failure leaves it
\* in another way.
C12_NoFailureEscapes ==
    /\ cfa.pc \notin {"crashed", "diverged"}
    /\ cfa.pc = "failed" => cfa.result = ""
    /\ cfa.pc = "generated" => cfa.result = "text" /\ cfa.shader_source # <<>>

\* The program <<IF dest 0 num 0, END, ...>> with main_offset 0 is accepted
\* with no read beyond PROGRAM_END, and the generator never finishes the main
\* subroutine: CompileInstr(0) returns 0.
C12_Witness ==
    /\ cfa.pc = "diverged"
    /\ ~ScannedPastEnd
    /\ cfa.main_offset = 0
    /\ cfa.program_code[1] = Instr("IFC", 0, 0)
    /\ cfa.program_code[2] = Instr("END", 0, 0)
    /\ CompileInstr(cfa, 0).next = 0


(***************************************************************************)
(* The subroutine set of a finished analysis.                              *)
(***************************************************************************)
\* The constructor of ControlFlowAnalyzer has returned.
AnalysisSucceeded == cfa.pc \in {"analyzed", "generated", "diverged"}

\* C13: in the subroutine set of a successful analysis no two subroutines
\* have the same (begin, end), the body of Scan ran at most once for every
\* range (and once for every subroutine), and no subroutine is Undetermined.
C13_SubroutinesUnique ==
    /\ \A key \in DOMAIN cfa.scans : cfa.scans[key] <= 1
    /\ AnalysisSucceeded =>
         /\ \A s, t \in cfa.subroutines : s.begin = t.begin /\ s.end = t.end => s = t
         /\ \A s \in cfa.subroutines :
                /\ s.exit_method # "Undetermined"
                /\ <<s.begin, s.end>> \in DOMAIN cfa.scans
                /\ cfa.scans[<<s.begin, s.end>>] = 1

\* <<CALL (2, 2), CALL (2, 2), END>> is accepted: the range (2, 2) was asked
\* for twice and scanned once, and the set holds it once beside the main
\* subroutine; the continuation (2, PROGRAM_END) was scanned once as well.
C13_Witness ==
    /\ cfa.pc = "analyzed" /\ cfa.main_offset = 0
    /\ cfa.program_code[1] = Instr("CALL", 2, 0)
    /\ cfa.program_code[2] = Instr("CALL", 2, 0)
    /\ Cardinality(cfa.subroutines) = 2
    /\ cfa.scans[<<2, 2>>] = 1


(***************************************************************************)
(* Repeated analysis of a range.                                           *)
(***************************************************************************)
\* C14: a Scan call for a range that was analyzed before yields the exit
\* method and the label set that the first analysis of the range yielded.
C14_RepeatedAnalysisAgrees ==
    \A r \in cfa.repeats :
        <<r.begin, r.end>> \in DOMAIN cfa.analyses =>
            /\ r.exit_method = cfa.analyses[<<r.begin, r.end>>].exit_method
            /\ r.labels = cfa.analyses[<<r.begin, r.end>>].labels

\* <<CALLC (1, 3), JMPC 2, END>>: the range (1, PROGRAM_END) is analyzed first
\* as the callee, giving its subroutine the label 2, and again as the
\* continuation of the call inside the main subroutine, which gets no label
\* although the jump at offset 1 is part of it.
C14_Witness ==
    /\ cfa.pc = "analyzed" /\ cfa.main_offset = 0
    /\ cfa.program_code[1] = Instr("CALLC", 1, PROGRAM_END - 1)
    /\ cfa.program_code[2] = Instr("JMPC", PROGRAM_END - 1, 0)
    /\ cfa.analyses[<<1, PROGRAM_END>>].labels = {PROGRAM_END - 1}
    /\ [begin |-> 1, end |-> PROGRAM_END, exit_method |-> "AlwaysEnd", labels |-> {}]
           \in cfa.repeats
    /\ \E s \in cfa.subroutines :
           s.begin = 0 /\ s.end = PROGRAM_END /\ s.labels = {}
    /\ \E s \in cfa.subroutines :
           s.begin = 1 /\ s.end = PROGRAM_END /\ s.labels = {PROGRAM_END - 1}


(***************************************************************************)
(* The merge rules.                                                        *)
(***************************************************************************)
\* C15: ParallelExit(Undetermined, X) = X = ParallelExit(X, Undetermined),
\* ParallelExit(X, X) = X, every pair of two different determined methods
\* gives Conditional, and the merge is commutative.
C15_ParallelExitTable ==
    \A i \in DOMAIN cfa.merges :
        LET m == cfa.merges[i] IN
        m.fn = "ParallelExit" =>
            /\ m.a = "Undetermined" => m.result = m.b
            /\ m.b = "Undetermined" => m.result = m.a
            /\ m.a = m.b => m.result = m.a
            /\ (m.a # "Undetermined" /\ m.b # "Undetermined" /\ m.a # m.b)
                   => m.result = "Conditional"
            /\ \A j \in DOMAIN cfa.merges :
                   LET n == cfa.merges[j] IN
                   (n.fn = "ParallelExit" /\ n.a = m.b /\ n.b = m.a)
                       => n.result = m.result

\* ParallelExit(AlwaysEnd, Conditional) and ParallelExit(Conditional, AlwaysEnd)
\* were both called and both gave Conditional.
C15_Witness ==
    /\ Len(cfa.merges) = 2
    /\ cfa.merges[1] = Merge("ParallelExit", "AlwaysEnd", "Conditional", "Conditional")
    /\ cfa.merges[2] = Merge("ParallelExit", "Conditional", "AlwaysEnd", "Conditional")

\* C16: for a other than AlwaysEnd, SeriesExit(AlwaysReturn, b) = b,
\* SeriesExit(Undetermined, b) = Undetermined, and SeriesExit(Conditional, b)
\* is AlwaysEnd when b is Undetermined or AlwaysEnd and Conditional otherwise.
C16_SeriesExitTable ==
    \A i \in DOMAIN cfa.merges :
        LET m == cfa.merges[i] IN
        (m.fn = "SeriesExit" /\ m.a # "AlwaysEnd") =>
            /\ m.a = "AlwaysReturn" => m.result = m.b
            /\ m.a = "Undetermined" => m.result = "Undetermined"
            /\ m.a = "Conditional" =>
                   m.result = IF m.b \in {"Undetermined", "AlwaysEnd"}
                              THEN "AlwaysEnd" ELSE "Conditional"

\* SeriesExit(Conditional, Undetermined) gave AlwaysEnd and
\* SeriesExit(Conditional, AlwaysReturn) gave Conditional.
C16_Witness ==
    /\ Len(cfa.merges) = 2
    /\ cfa.merges[1] = Merge("SeriesExit", "Conditional", "Undetermined", "AlwaysEnd")
    /\ cfa.merges[2] = Merge("SeriesExit", "Conditional", "AlwaysReturn", "Conditional")


(***************************************************************************)
(* The CALL-class cases of Scan.                                           *)
(***************************************************************************)
\* The Scan activation on top of the stack stopped at an instruction of class
\* `op` and the n-th call it made has just returned.
CallReturnedTo(op, n) ==
    /\ Running /\ cfa.rv # "none"
    /\ LET f == Top(cfa.stack) IN
       /\ f.fn = "Scan" /\ f.entered
       /\ cfa.program_code[f.offset + 1].op = op
       /\ Len(f.vals) = n - 1

\* The callee of the instruction the top activation stopped at is a subroutine
\* of its own with the exit method just returned.
CalleeIsSubroutine ==
    LET f == Top(cfa.stack)
        instr == cfa.program_code[f.offset + 1]
    IN \E s \in cfa.subroutines :
           /\ s.begin = instr.dest /\ s.end = instr.dest + instr.num
           /\ s.exit_method = cfa.rv

\* The step gives the range of the top activation the exit method r and
\* returns it.
ResolvesTo(r) ==
    LET f == Top(cfa.stack) IN
    /\ Len(cfa'.stack) = Len(cfa.stack) - 1
    /\ cfa'.rv = r
    /\ cfa'.exit_method_map[<<f.begin, f.end>>] = r

\* The step calls Scan for the continuation (offset + 1, end).
ScansContinuation ==
    LET f == Top(cfa.stack) IN
    /\ Len(cfa'.stack) = Len(cfa.stack) + 1
    /\ Top(cfa'.stack) = Frame("Scan", f.offset + 1, f.end)

\* C17 as stated, for CALL, CALLC and CALLU alike: the callee is a subroutine
\* of its own; an AlwaysEnd callee makes the range AlwaysEnd at once, the
\* continuation is not scanned; otherwise the result is SeriesExit of the
\* callee's exit method and the continuation's.
C17_AsStated ==
    [][ \A op \in {"CALL", "CALLC"} :
          /\ CallReturnedTo(op, 1) =>
                /\ CalleeIsSubroutine
                /\ IF cfa.rv = "AlwaysEnd" THEN ResolvesTo("AlwaysEnd")
                   ELSE ScansContinuation
          /\ CallReturnedTo(op, 2) =>
                ResolvesTo(SeriesExit(Top(cfa.stack).vals[1], cfa.rv)) ]_vars

\* C17 as the code has it: the rule above holds for CALL; for CALLC and CALLU
\* the continuation is scanned whatever the callee's exit method is, and the
\* result is SeriesExit of ParallelExit(callee, AlwaysReturn) and the
\* continuation's exit method.
C17_CallRules ==
    [][ /\ \A op \in {"CALL", "CALLC"} : CallReturnedTo(op, 1) => CalleeIsSubroutine
        /\ CallReturnedTo("CALL", 1) =>
              IF cfa.rv = "AlwaysEnd" THEN ResolvesTo("AlwaysEnd")
              ELSE ScansContinuation
        /\ CallReturnedTo("CALL", 2) =>
              ResolvesTo(SeriesExit(Top(cfa.stack).vals[1], cfa.rv))
        /\ CallReturnedTo("CALLC", 1) => ScansContinuation
        /\ CallReturnedTo("CALLC", 2) =>
              ResolvesTo(SeriesExit(ParallelExit(Top(cfa.stack).vals[1], "AlwaysReturn"),
                                    cfa.rv)) ]_vars

\* <<CALLC (2, 3), NOP, END>>: the callee is AlwaysEnd, the continuation
\* (1, PROGRAM_END) was scanned all the same, and the main subroutine is the
\* series-merge of Conditional with the continuation's AlwaysEnd.
C17_Witness ==
    /\ cfa.pc = "analyzed" /\ cfa.main_offset = 0
    /\ cfa.program_code[1] = Instr("CALLC", 2, 1)
    /\ cfa.program_code[2].op = "NOP"
    /\ \E s \in cfa.subroutines : s.begin = 2 /\ s.end = 3 /\ s.exit_method = "AlwaysEnd"
    /\ <<1, PROGRAM_END>> \in DOMAIN cfa.scans
    /\ cfa.exit_method_map[<<0, PROGRAM_END>>] = SeriesExit("Conditional", "AlwaysEnd")


(***************************************************************************)
(* The text of MUL, RCP and RSQ.                                           *)
(***************************************************************************)
\* DecompileProgram returned the text that Generate wrote.
TextReturned == cfa.pc = "generated"

HasLine(text, line) == \E i \in DOMAIN text : text[i] = line

\* The offsets of the instructions of class `op` that CompileInstr compiled:
\* their comment line (line 437) is in the text.
CompiledOffsets(op) ==
    { o \in Offsets : /\ cfa.program_code[o + 1].op = op
                      /\ HasLine(cfa.shader_source, Line("comment", o, 0)) }

HelperDefined ==
    HasLine(cfa.shader_source, Line("vec4 sanitize_mul(vec4 lhs, vec4 rhs) {", 0, 0))

HelperCalled ==
    \E i \in DOMAIN cfa.shader_source :
        cfa.shader_source[i].kind \in
            {"assign sanitize_mul(a, b)", "assign sanitize_mul(a, b) + c"}

\* C18 as stated: every MUL that is compiled puts a call of sanitize_mul into
\* the text when sanitize_mul is true and the operator * when it is false;
\* the helper is defined exactly when sanitize_mul is true, and a text that
\* calls it defines it.
C18_AsStated ==
    TextReturned =>
        /\ \A o \in CompiledOffsets("MUL") :
               HasLine(cfa.shader_source,
                   Line(IF cfa.sanitize_mul THEN "assign sanitize_mul(a, b)"
                        ELSE "assign a * b", o, 0))
        /\ HelperDefined <=> cfa.sanitize_mul
        /\ HelperCalled => HelperDefined

\* C18 as the code has it: a compiled MUL whose destination mask enables a
\* component writes the call when sanitize_mul is true and the operator when
\* it is false, and never the other; a MUL whose mask enables none writes
\* neither; the helper is defined exactly when sanitize_mul is true, and a
\* text that calls it defines it.
C18_MulFollowsFlag ==
    TextReturned =>
        /\ \A o \in CompiledOffsets("MUL") :
               LET call == HasLine(cfa.shader_source, Line("assign sanitize_mul(a, b)", o, 0))
                   star == HasLine(cfa.shader_source, Line("assign a * b", o, 0))
               IN IF cfa.swizzle_data[o + 1] = 0 THEN ~call /\ ~star
                  ELSE /\ call <=> cfa.sanitize_mul
                       /\ star <=> ~cfa.sanitize_mul
        /\ HelperDefined <=> cfa.sanitize_mul
        /\ HelperCalled => HelperDefined

\* <<MUL, END, ...>> with sanitize_mul and a full destination mask: the text
\* defines the helper and the MUL calls it.
C18_Witness ==
    /\ TextReturned /\ cfa.sanitize_mul /\ cfa.main_offset = 0
    /\ cfa.program_code[1].op = "MUL" /\ cfa.swizzle_data[1] = 4
    /\ HasLine(cfa.shader_source, Line("assign sanitize_mul(a, b)", 0, 0))
    /\ HelperDefined


\* The guard and the assignment CompileInstr writes for RCP and for RSQ.
GuardOf(op) == IF op = "RCP" THEN "if (a.x != 0.0)" ELSE "if (a.x > 0.0)"

ValueOf(op) == IF op = "RCP" THEN "assign 1.0 / a.x" ELSE "assign inversesqrt(a.x)"

\* Line number i of the text is the guard of the instruction at offset o and
\* the next line is the assignment of that instruction.
GuardsOperation(text, i, op, o) ==
    /\ text[i] = Line(GuardOf(op), o, 0)
    /\ i + 1 \in DOMAIN text
    /\ text[i + 1] = Line(ValueOf(op), o, 0)

\* C19: with sanitize_mul false every compiled RCP and RSQ has its guard in
\* the text and the guard stands before the operation it is to skip; with
\* sanitize_mul true the text holds no guard.
C19_GuardSkipsOperation ==
    TextReturned =>
        \A op \in {"RCP", "RSQ"} : \A o \in CompiledOffsets(op) :
            IF cfa.sanitize_mul
            THEN ~HasLine(cfa.shader_source, Line(GuardOf(op), o, 0))
            ELSE \E i \in DOMAIN cfa.shader_source :
                     GuardsOperation(cfa.shader_source, i, op, o)

\* <<RCP, END, ...>> with sanitize_mul false and a destination mask that
\* enables no component: the guard of the RCP is written, no assignment
\* follows it, and the statement it guards is the "return true" of the END.
C19_Witness ==
    /\ TextReturned /\ ~cfa.sanitize_mul /\ cfa.main_offset = 0
    /\ cfa.program_code[1].op = "RCP" /\ cfa.swizzle_data[1] = 0
    /\ cfa.program_code[2].op = "END"
    /\ \E i \in DOMAIN cfa.shader_source :
           /\ cfa.shader_source[i] = Line(GuardOf("RCP"), 0, 0)
           /\ cfa.shader_source[i + 1] = Line("comment", 1, 0)
           /\ cfa.shader_source[i + 2] = Line("return true", 0, 0)
    /\ ~HasLine(cfa.shader_source, Line(ValueOf("RCP"), 0, 0))

(***************************************************************************)
(* The SPIR-V backend of the shader recompiler (yuzu, shader_recompiler/  *)
(* backend/spirv/emit_spirv_floating_point.cpp): the comparison, clamp and *)
(* saturate opcodes.  A floating-point value is NaN or a number counted in *)
(* halves; the code an Emit function adds is a sequence of instructions,   *)
(* the operands of the opcode have the ids 1 .. NumArgs and the            *)
(* instruction code[i] has the id NumArgs + i.                             *)
(***************************************************************************)
\* The largest number of the model, in halves.
MaxFloat == 3
\* 1.0, in halves (f32{1.0}).
One == 2

Float(v) == [nan |-> FALSE, v |-> v]
NaN == [nan |-> TRUE, v |-> 0]
Floats == { Float(v) : v \in (1 - MaxFloat) .. MaxFloat } \cup { NaN }

NumArgs == 3
Id(code) == NumArgs + Len(code)

Inst(op, rel, a, b, c) == [op |-> op, rel |-> rel, a |-> a, b |-> b, c |-> c]

Relations ==
    { "Equal", "NotEqual", "LessThan", "GreaterThan", "LessThanEqual",
      "GreaterThanEqual" }

Relation(rel, x, y) ==
    CASE rel = "Equal" -> x = y
      [] rel = "NotEqual" -> x # y
      [] rel = "LessThan" -> x < y
      [] rel = "GreaterThan" -> x > y
      [] rel = "LessThanEqual" -> x <= y
      [] rel = "GreaterThanEqual" -> x >= y

\* OpFOrd<rel> and OpFUnord<rel> of SPIR-V.
OpFOrd(rel, a, b) == ~a.nan /\ ~b.nan /\ Relation(rel, a.v, b.v)
OpFUnord(rel, a, b) == a.nan \/ b.nan \/ Relation(rel, a.v, b.v)

\* FMin, FMax and FClamp of GLSL.std.450: the results the target may give.
\* Which operand FMin and FMax give is not defined when one is a NaN; FClamp
\* is not defined when minVal > maxVal.
FMinAlways(x, y) == {x}
FMin(x, y) == IF x.nan \/ y.nan THEN {x, y} ELSE IF y.v < x.v THEN {y} ELSE {x}
FMax(x, y) == IF x.nan \/ y.nan THEN {x, y} ELSE IF x.v < y.v THEN {y} ELSE {x}
FClamp(x, lo, hi) ==
    IF x.nan \/ lo.nan \/ hi.nan THEN {x, lo, hi}
    ELSE IF hi.v < lo.v THEN Floats
    ELSE IF x.v < lo.v THEN {lo} ELSE IF hi.v < x.v THEN {hi} ELSE {x}

\* The values instruction `inst` may give on operand values from A, B and C.
Apply(inst, A, B, C) ==
    CASE inst.op = "OpIsNan" -> { a.nan : a \in A }
      [] inst.op = "OpLogicalNot" -> { ~a : a \in A }
      [] inst.op = "OpLogicalOr" -> { a \/ b : a \in A, b \in B }
      [] inst.op = "OpLogicalAnd" -> { a /\ b : a \in A, b \in B }
      [] inst.op = "OpFOrd" -> { OpFOrd(inst.rel, a, b) : a \in A, b \in B }
      [] inst.op = "OpFUnord" -> { OpFUnord(inst.rel, a, b) : a \in A, b \in B }
      [] inst.op = "OpFMin" -> UNION { FMin(a, b) : a \in A, b \in B }
      [] inst.op = "OpFMax" -> UNION { FMax(a, b) : a \in A, b \in B }
      [] inst.op = "OpFClamp" ->
           UNION { FClamp(a, b, c) : a \in A, b \in B, c \in C }
      [] inst.op = "Constant" -> { Float(inst.a) }

\* The values the id may have when `code` runs on the operands `args`.
RECURSIVE Values(_, _, _)
Values(code, args, id) ==
    IF id = 0 THEN { FALSE }
    ELSE IF id <= NumArgs THEN { args[id] }
    ELSE LET Operands(inst) ==
                 IF inst.op = "Constant" THEN Apply(inst, {}, {}, {})
                 ELSE Apply(inst, Values(code, args, inst.a),
                            Values(code, args, inst.b), Values(code, args, inst.c))
         IN Operands(code[id - NumArgs])

\* Clamp (lines 18-24), after `code`, of the ids value, zero and one.
Clamp(profile, code, value, zero, one) ==
    IF profile.has_broken_spirv_clamp
    THEN code \o << Inst("OpFMax", "", value, zero, 0),
                    Inst("OpFMin", "", Id(code) + 1, one, 0) >>
    ELSE code \o << Inst("OpFClamp", "", value, zero, one) >>

\* FPOrdNotEqual (lines 26-35).
FPOrdNotEqual(profile, lhs, rhs) ==
    IF profile.ignore_nan_fp_comparisons
    THEN << Inst("OpFOrd", "Equal", lhs, rhs, 0),        \* comp
            Inst("OpIsNan", "", lhs, 0, 0),
            Inst("OpLogicalNot", "", NumArgs + 2, 0, 0), \* lhs_not_nan
            Inst("OpIsNan", "", rhs, 0, 0),
            Inst("OpLogicalNot", "", NumArgs + 4, 0, 0), \* rhs_not_nan
            Inst("OpLogicalAnd", "", NumArgs + 1, NumArgs + 3, 0),
            Inst("OpLogicalAnd", "", NumArgs + 6, NumArgs + 5, 0) >>
    ELSE << Inst("OpFOrd", "NotEqual", lhs, rhs, 0) >>

\* FPUnordCompare (lines 37-46); comp_func is the member function of
\* EmitContext the caller passes.
FPUnordCompare(comp_func, profile, lhs, rhs) ==
    IF profile.ignore_nan_fp_comparisons
    THEN << Inst("OpIsNan", "", lhs, 0, 0),              \* lhs_nan
            Inst("OpIsNan", "", rhs, 0, 0),              \* rhs_nan
            Inst(comp_func.op, comp_func.rel, lhs, rhs, 0), \* comp
            Inst("OpLogicalOr", "", NumArgs + 3, NumArgs + 1, 0),
            Inst("OpLogicalOr", "", NumArgs + 4, NumArgs + 2, 0) >>
    ELSE << Inst(comp_func.op, comp_func.rel, lhs, rhs, 0) >>

\* A variant of the callers of FPUnordCompare that passes the ordered
\* comparison.
OrderedFunc(rel) == [op |-> "OpFOrd", rel |-> rel]
\* &EmitContext::OpFUnord<rel>, as EmitFPUnord<rel>16/32/64 pass it (lines
\* 251-261, 287-297, 311-321, 335-345, 359-369).
UnorderedFunc(rel) == [op |-> "OpFUnord", rel |-> rel]

\* The comparison opcodes: EmitFP<class><rel>16/32/64 (lines 239-370).
CompareOpcodes == { [class |-> c, rel |-> r] : c \in {"Ord", "Unord"}, r \in Relations }

\* EmitFP<class><rel>16/32/64 (lines 239-370): the three widths have the same
\* body.
EmitFPCompare(profile, opcode, lhs, rhs) ==
    IF opcode.class = "Ord"
    THEN IF opcode.rel = "NotEqual" THEN FPOrdNotEqual(profile, lhs, rhs)
         ELSE << Inst("OpFOrd", opcode.rel, lhs, rhs, 0) >>
    ELSE IF opcode.rel = "NotEqual"
         THEN << Inst("OpFUnord", "NotEqual", lhs, rhs, 0) >>
         ELSE FPUnordCompare(UnorderedFunc(opcode.rel), profile, lhs, rhs)

\* EmitFPSaturate16/32/64 (lines 161-177).
EmitFPSaturate(profile, value) ==
    Clamp(profile, << Inst("Constant", "", 0, 0, 0), Inst("Constant", "", One, 0, 0) >>,
          value, NumArgs + 1, NumArgs + 2)

\* EmitFPClamp16/32/64 (lines 179-189).
EmitFPClamp(profile, value, min_value, max_value) ==
    Clamp(profile, <<>>, value, min_value, max_value)

Profiles ==
    [ ignore_nan_fp_comparisons : BOOLEAN, has_broken_spirv_clamp : BOOLEAN ]

Widths == {16, 32, 64}

\* The instruction is emitted and runs on `args`; value is a value the
\* target may give it.
Emitted(profile, opcode, bits, args, code) ==
    /\ \E value \in Values(code, args, Id(code)) :
           ir' = [ir EXCEPT !.pc = "emitted", !.profile = profile, !.opcode = opcode,
                            !.bits = bits, !.args = args, !.code = code,
                            !.value = value]
    /\ UNCHANGED <<cacheVars, cfa, vk, ring>>

\* EmitSPIRV on one comparison opcode.
EmitCompare ==
    /\ ir.pc = "off"
    /\ \E profile \in Profiles, opcode \in CompareOpcodes, bits \in Widths,
          lhs \in Floats, rhs \in Floats :
        Emitted(profile, opcode, bits, << lhs, rhs, Float(0) >>,
                EmitFPCompare(profile, opcode, 1, 2))

\* EmitSPIRV on FPSaturate.
EmitSaturate ==
    /\ ir.pc = "off"
    /\ \E profile \in Profiles, bits \in Widths, value \in Floats :
        Emitted(profile, [class |-> "Saturate", rel |-> ""], bits, << value, Float(0), Float(0) >>,
                EmitFPSaturate(profile, 1))

\* EmitSPIRV on FPClamp.
EmitClamp ==
    /\ ir.pc = "off"
    /\ \E profile \in Profiles, bits \in Widths, value \in Floats,
          min_value \in Floats, max_value \in Floats :
        Emitted(profile, [class |-> "Clamp", rel |-> ""], bits, << value, min_value, max_value >>,
                EmitFPClamp(profile, 1, 2, 3))

(***************************************************************************)
(* Specification of the floating-point opcodes of the SPIR-V backend.      *)
(***************************************************************************)
NextFP ==
    \/ EmitCompare
    \/ EmitSaturate
    \/ EmitClamp

SpecFP == InitCFA /\ [][NextFP]_vars

(***************************************************************************)
(* The Maxwell frontend of the shader recompiler (yuzu, shader_recompiler/ *)
(* frontend/maxwell/translate/impl/load_constant.cpp): LDC.  A U32 is kept *)
(* as its upper and lower 16 bits.  The block the IREmitter writes is a    *)
(* sequence of instructions; a value is the position of the instruction    *)
(* that makes it (an immediate is kept as an instruction too).             *)
(***************************************************************************)
\* ir.Imm32(16): the width of a segment of the flat const buffer mapping.
SegmentBits == 16
Segment == 2 ^ SegmentBits

Word(hi, lo) == [hi |-> hi, lo |-> lo]

\* static_cast<u32> of a signed 32-bit number of small magnitude.
Cast(n) == IF n < 0 THEN Word(Segment - 1, Segment + n) ELSE Word(0, n)

\* IR::Opcode::IAdd32 on two values.
IAdd(x, y) ==
    Word((x.hi + y.hi + (x.lo + y.lo) \div Segment) % Segment, (x.lo + y.lo) % Segment)

\* IR::Opcode::BitFieldUExtract of SegmentBits bits from `offset` on.
BitFieldExtract(x, offset) ==
    IF offset = SegmentBits THEN Word(0, x.hi) ELSE Word(0, x.lo)

LdcModes == {"Default", "IS", "Other"}
LdcSizes == {"U8", "S8", "U16", "S16", "B32", "B64", "Other"}

\* What Slot and LDC leave: the block, the pair Slot returns, and
\* "ok" or the exception thrown.
Translated(code, index, offset, status) ==
    [code |-> code, index |-> index, offset |-> offset, status |-> status]

\* Slot (lines 12-31), writing after `code`.
Slot(code, mode, imm_index, reg, imm_offset) ==
    CASE mode = "Default" ->
           Translated(code \o << Inst("IAdd", "", reg, imm_offset, 0) >>,
                      imm_index, Len(code) + 1, "ok")
      [] mode = "IS" ->
           Translated(code \o << Inst("IAdd", "", reg, imm_offset, 0),          \* address
                                 Inst("BitFieldExtract", "", Len(code) + 1,
                                      SegmentBits, SegmentBits),              \* index
                                 Inst("BitFieldExtract", "", Len(code) + 1, 0,
                                      SegmentBits),                            \* offset
                                 Inst("IAdd", "", Len(code) + 2, imm_index, 0) >>,
                      Len(code) + 4, Len(code) + 3, "ok")
      [] OTHER -> Translated(code, 0, 0, "NotImplementedException")

\* A variant of the B64 case that takes every destination register.
AlwaysAligned(reg, align) == TRUE

\* IR::IsAligned.
IsAligned(reg, align) == reg % align = 0

\* GetCbuf and the register writes of one size (lines 40-68), after Slot
\* left `s`.
Load(s, size, dest_reg) ==
    LET GetCbuf(bits, is_signed) ==
            Inst("GetCbuf", is_signed, s.index, s.offset, bits)
        Scalar(bits, is_signed) ==
            Translated(s.code \o << GetCbuf(bits, is_signed),
                                    Inst("SetRegister", "", dest_reg,
                                         Len(s.code) + 1, 0) >>,
                       s.index, s.offset, "ok")
    IN CASE size = "U8" -> Scalar(8, "unsigned")
         [] size = "S8" -> Scalar(8, "signed")
         [] size = "U16" -> Scalar(16, "unsigned")
         [] size = "S16" -> Scalar(16, "signed")
         [] size = "B32" -> Scalar(32, "unsigned")
         [] size = "B64" ->
              IF ~IsAligned(dest_reg, 2)
              THEN Translated(s.code, s.index, s.offset, "NotImplementedException")
              ELSE Translated(
                       s.code \o << GetCbuf(64, "unsigned"),
                                    Inst("CompositeExtract", "", Len(s.code) + 1, 0, 0),
                                    Inst("SetRegister", "", dest_reg, Len(s.code) + 2, 0),
                                    Inst("CompositeExtract", "", Len(s.code) + 1, 1, 0),
                                    Inst("SetRegister", "", dest_reg + 1,
                                         Len(s.code) + 4, 0) >>,
                       s.index, s.offset, "ok")
         [] OTHER -> Translated(s.code, s.index, s.offset, "NotImplementedException")

\* TranslatorVisitor::LDC (lines 34-69).
LDC(ldc) ==
    LET Sized(s) == IF s.status # "ok" THEN s ELSE Load(s, ldc.size, ldc.dest_reg)
    IN Sized(Slot(<< Inst("Imm32", "", 0, ldc.index, 0),                \* imm_index
                     Inst("GetRegister", "", ldc.src_reg, 0, 0),        \* reg
                     Inst("Imm32", "", Cast(ldc.offset).hi, Cast(ldc.offset).lo, 0) >>,
                  ldc.mode, 1, 2, 3))

\* The value of instruction `id` of the block when the source register holds
\* `reg`.
RECURSIVE IrValue(_, _, _)
IrValue(code, reg, id) ==
    LET Of(inst) ==
            CASE inst.op = "Imm32" -> Word(inst.a, inst.b)
              [] inst.op = "GetRegister" -> reg
              [] inst.op = "IAdd" ->
                   IAdd(IrValue(code, reg, inst.a), IrValue(code, reg, inst.b))
              [] inst.op = "BitFieldExtract" ->
                   BitFieldExtract(IrValue(code, reg, inst.a), inst.b)
    IN Of(code[id])

\* The fields of an LDC instruction the model draws.
MaxIndex == 2
Encodings ==
    [ index : {0, MaxIndex}, src_reg : {4}, offset : {-4, 0, 4},
      mode : LdcModes, size : LdcSizes, dest_reg : 0 .. 3 ]

\* The values the source register holds when the block runs.
RegValues == { Word(hi, lo) : hi \in {0, 1, Segment - 1}, lo \in {0, 2, Segment - 1} }

\* Translate on one LDC instruction; `reg` is what the source register will
\* hold.
TranslateLDC ==
    /\ ir.pc = "off"
    /\ \E ldc \in Encodings, reg \in RegValues :
        \E t \in { LDC(ldc) } :
           ir' = [ir EXCEPT !.pc = "translated", !.opcode = [class |-> "LDC", rel |-> ""],
                            !.insn = ldc, !.args = << reg >>, !.code = t.code,
                            !.value = t]
    /\ UNCHANGED <<cacheVars, cfa, vk, ring>>

(***************************************************************************)
(* Specification of the translation of LDC.                                *)
(***************************************************************************)
NextLDC == TranslateLDC

SpecLDC == InitCFA /\ [][NextLDC]_vars

(***************************************************************************)
(* The Vulkan graphics pipeline (yuzu, video_core/renderer_vulkan/         *)
(* vk_graphics_pipeline.cpp): the constructor with its build function,     *)
(* MakePipeline's rasterization chain, and ConfigureDraw.  Three threads   *)
(* take part: the draw thread (constructor, ConfigureDraw), the worker     *)
(* that runs a queued build, and the scheduler's thread, which executes    *)
(* the recorded commands in the order they were recorded.                  *)
(***************************************************************************)
\* ConfigureDraw calls of one run.
MaxDraws == 2

Topologies ==
    { "POINT_LIST", "LINE_LIST", "LINE_STRIP", "TRIANGLE_LIST", "TRIANGLE_STRIP",
      "TRIANGLE_FAN", "LINE_LIST_WITH_ADJACENCY", "LINE_STRIP_WITH_ADJACENCY",
      "TRIANGLE_LIST_WITH_ADJACENCY", "TRIANGLE_STRIP_WITH_ADJACENCY", "PATCH_LIST" }

Devices == [ line : BOOLEAN, conservative : BOOLEAN, provoking : BOOLEAN ]

\* IsLine (lines 88-94).
IsLine(topology) == topology \notin {"LINE_LIST", "LINE_STRIP"}

\* input_assembly_topology of MakePipeline (lines 606-621); `topology` is what
\* MaxwellToVK::PrimitiveTopology returned.
InputAssemblyTopology(topology, has_tess_stages) ==
    IF topology = "PATCH_LIST"
    THEN IF ~has_tess_stages THEN "POINT_LIST" ELSE topology
    ELSE IF has_tess_stages THEN "PATCH_LIST" ELSE topology

\* std::exchange(rasterization_ci.pNext, &info): info is put before the chain.
Chain(enabled, info, chain) == IF enabled THEN << info >> \o chain ELSE chain

\* The pNext chain of rasterization_ci after lines 718-726 of MakePipeline.
RasterizationChain(v) ==
    Chain(v.device.provoking, "provoking_vertex",
      Chain(v.device.conservative, "conservative_raster",
        Chain(IsLine(InputAssemblyTopology(v.topology, v.has_tess_stages))
                  /\ v.device.line, "line_state", <<>>)))

\* The build function up to the lock (lines 261-279).
MakePipeline(v) ==
    [v EXCEPT !.rasterization = RasterizationChain(v), !.pipeline = TRUE]

\* A variant of std::scoped_lock that does not wait for the mutex.
LocksAtOnce(mutex) == TRUE

\* std::scoped_lock / std::unique_lock on build_mutex: taken when it is free.
Lockable(mutex) == mutex = "free"

\* build_condvar.notify_one(): a thread blocked in wait is made runnable.
NotifyOne(sched) == IF sched = "blocked" THEN "woken" ELSE sched

\* The constructor (lines 236-291): the build function is queued on the
\* worker thread, or runs before the constructor returns.
GraphicsPipelineOver(Tops, Devs, WorkerThreads) ==
    /\ vk.pc = "off"
    /\ \E topology \in Tops, device \in Devs, tess \in BOOLEAN,
          worker_thread \in WorkerThreads :
        LET made == [vk EXCEPT !.pc = "live", !.worker_thread = worker_thread,
                               !.topology = topology, !.has_tess_stages = tess,
                               !.device = device]
        IN vk' = IF worker_thread THEN [made EXCEPT !.build = "queued"]
                 ELSE [MakePipeline(made) EXCEPT !.is_built = TRUE, !.build = "done"]
    /\ UNCHANGED <<cacheVars, cfa, ir, ring>>

GraphicsPipeline ==
    GraphicsPipelineOver({"TRIANGLE_LIST"},
                         {[line |-> TRUE, conservative |-> FALSE, provoking |-> FALSE]},
                         BOOLEAN)

GraphicsPipelineTopology == GraphicsPipelineOver(Topologies, Devices, BOOLEAN)

\* The worker thread runs the build function up to MakePipeline (lines
\* 261-279).
BuildMakesPipeline ==
    /\ vk.build = "queued"
    /\ vk' = [MakePipeline(vk) EXCEPT !.build = "made"]
    /\ UNCHANGED <<cacheVars, cfa, ir, ring>>

\* std::scoped_lock lock{build_mutex} (line 281).
BuildLocks ==
    /\ vk.build = "made" /\ Lockable(vk.build_mutex)
    /\ vk' = [vk EXCEPT !.build = "locked", !.build_mutex = "build"]
    /\ UNCHANGED <<cacheVars, cfa, ir, ring>>

\* is_built = true (line 282).
BuildSetsBuilt ==
    /\ vk.build = "locked"
    /\ vk' = [vk EXCEPT !.build = "set", !.is_built = TRUE]
    /\ UNCHANGED <<cacheVars, cfa, ir, ring>>

\* build_condvar.notify_one() (line 283).
BuildNotifies ==
    /\ vk.build = "set"
    /\ vk' = [vk EXCEPT !.build = "notified", !.sched = NotifyOne(@)]
    /\ UNCHANGED <<cacheVars, cfa, ir, ring>>

\* The end of the build function (line 287): the lock is released.
BuildUnlocks ==
    /\ vk.build = "notified"
    /\ vk' = [vk EXCEPT !.build = "done",
                        !.build_mutex = IF @ = "build" THEN "free" ELSE @]
    /\ UNCHANGED <<cacheVars, cfa, ir, ring>>

\* ConfigureDraw reads is_built (line 494).
ConfigureDrawLoads ==
    /\ vk.pc = "live" /\ vk.draw.pc = "idle" /\ vk.draws < MaxDraws
    /\ vk' = [vk EXCEPT !.draw = [pc |-> "loaded", is_built |-> vk.is_built]]
    /\ UNCHANGED <<cacheVars, cfa, ir, ring>>

\* ConfigureDraw records the wait when it read false (lines 494-500).
ConfigureDrawRecordsWait ==
    /\ vk.draw.pc = "loaded"
    /\ vk' = [vk EXCEPT !.draw.pc = "bind",
                        !.chunk = IF vk.draw.is_built THEN @
                                  ELSE Append(@, [cmd |-> "wait", bind |-> FALSE])]
    /\ UNCHANGED <<cacheVars, cfa, ir, ring>>

\* ConfigureDraw records the command that binds the pipeline (lines 501-512);
\* bind_pipeline is what scheduler.UpdateGraphicsPipeline returned.
ConfigureDrawRecords ==
    /\ vk.draw.pc = "bind"
    /\ \E bind_pipeline \in BOOLEAN :
        vk' = [vk EXCEPT !.draw.pc = "idle", !.draws = @ + 1,
                         !.chunk = Append(@, [cmd |-> "draw", bind |-> bind_pipeline])]
    /\ UNCHANGED <<cacheVars, cfa, ir, ring>>

SchedulerAt(cmd) == vk.chunk # <<>> /\ Head(vk.chunk).cmd = cmd

\* The recorded wait starts: std::unique_lock lock{build_mutex} (line 497).
WaitLocks ==
    /\ vk.sched = "idle" /\ SchedulerAt("wait") /\ Lockable(vk.build_mutex)
    /\ vk' = [vk EXCEPT !.sched = "locked", !.build_mutex = "sched"]
    /\ UNCHANGED <<cacheVars, cfa, ir, ring>>

\* build_condvar.wait(lock, pred) evaluates pred (line 498): the command is
\* over when is_built is true, the thread is about to block when not.
WaitChecks ==
    /\ vk.sched = "locked"
    /\ vk' = IF vk.is_built
             THEN [vk EXCEPT !.sched = "idle", !.chunk = Tail(@),
                             !.build_mutex = IF @ = "sched" THEN "free" ELSE @,
                             !.executed = Append(@, [cmd |-> "wait", bind |-> FALSE,
                                                     is_built |-> TRUE,
                                                     pipeline |-> vk.pipeline])]
             ELSE [vk EXCEPT !.sched = "blocking"]
    /\ UNCHANGED <<cacheVars, cfa, ir, ring>>

\* wait releases the mutex and blocks, in one step.
WaitBlocks ==
    /\ vk.sched = "blocking"
    /\ vk' = [vk EXCEPT !.sched = "blocked", !.blocked = TRUE,
                        !.build_mutex = IF @ = "sched" THEN "free" ELSE @]
    /\ UNCHANGED <<cacheVars, cfa, ir, ring>>

\* A wait may wake up with no notification.
WaitWakesSpuriously ==
    /\ vk.sched = "blocked"
    /\ vk' = [vk EXCEPT !.sched = "woken"]
    /\ UNCHANGED <<cacheVars, cfa, ir, ring>>

\* A woken wait takes the mutex again; pred is evaluated next.
WaitRelocks ==
    /\ vk.sched = "woken" /\ Lockable(vk.build_mutex)
    /\ vk' = [vk EXCEPT !.sched = "locked", !.build_mutex = "sched"]
    /\ UNCHANGED <<cacheVars, cfa, ir, ring>>

\* The writes of the build function happen before the reads of the
\* scheduler's thread: the build ran inside the constructor, or a wait took
\* build_mutex after the build released it. The relaxed load of line 494
\* orders nothing.
Synchronized ==
    ~vk.worker_thread \/ \E i \in DOMAIN vk.executed : vk.executed[i].cmd = "wait"

\* The recorded command of lines 504-512 runs: BindPipeline when
\* bind_pipeline was true. `pipeline` is the handle the command reads: the
\* one MakePipeline stored when the store happens before the read, and
\* either the old or the new one when it does not.
DrawCommandRuns ==
    /\ vk.sched = "idle" /\ SchedulerAt("draw")
    /\ \E handle \in (IF Synchronized THEN {vk.pipeline} ELSE BOOLEAN) :
        vk' = [vk EXCEPT !.chunk = Tail(@),
                         !.executed = Append(@, [cmd |-> "draw",
                                                 bind |-> Head(vk.chunk).bind,
                                                 is_built |-> vk.is_built,
                                                 pipeline |-> handle])]
    /\ UNCHANGED <<cacheVars, cfa, ir, ring>>

BuildThread ==
    \/ BuildMakesPipeline
    \/ BuildLocks
    \/ BuildSetsBuilt
    \/ BuildNotifies
    \/ BuildUnlocks

SchedulerThread ==
    \/ WaitLocks
    \/ WaitChecks
    \/ WaitBlocks
    \/ WaitRelocks
    \/ DrawCommandRuns

(***************************************************************************)
(* Specifications of the Vulkan graphics pipeline.                         *)
(***************************************************************************)
NextVk ==
    \/ GraphicsPipeline
    \/ BuildThread
    \/ ConfigureDrawLoads
    \/ ConfigureDrawRecordsWait
    \/ ConfigureDrawRecords
    \/ SchedulerThread
    \/ WaitWakesSpuriously

SpecVk == InitCFA /\ [][NextVk]_vars

\* The worker thread and the scheduler's thread keep running, and the build
\* gets build_mutex when it is free again and again (a wait that wakes with
\* no notification takes it only for the time of one evaluation of pred).
SpecVkLive ==
    /\ SpecVk
    /\ SF_vars(BuildThread)
    /\ WF_vars(SchedulerThread)

NextTopology ==
    \/ GraphicsPipelineTopology
    \/ BuildThread

SpecTopology == InitCFA /\ [][NextTopology]_vars

(***************************************************************************)
(* DelayedDestructionRing<T, TICKS_TO_DESTROY> of                          *)
(* video_core/delayed_destruction_ring.h.  ring.index and ring.elements    *)
(* are the members of the class; elements[i + 1] is the vector             *)
(* elements[i] of the code, a sequence of objects.  ring.ticks counts the  *)
(* calls of Tick, ring.pushed[o] is the value of ring.ticks when object o  *)
(* was pushed, and ring.destroyed records every object that left the       *)
(* container, with the call that removed it.                               *)
(***************************************************************************)

MaxTicksToDestroy == 3
MaxTicks == 5
MaxObjects == 3

\* The objects a ring holds: every element of every vector.
Alive(r) ==
    UNION { { r.elements[i][j] : j \in DOMAIN r.elements[i] } : i \in DOMAIN r.elements }

\* elements[index].clear()
Clear(elements, index) == [elements EXCEPT ![index + 1] = <<>>]

\* A variant of Tick that clears the current vector and then advances.
TickClearsCurrent(r) ==
    [r EXCEPT !.elements = Clear(r.elements, r.index),
              !.index = (r.index + 1) % r.TICKS_TO_DESTROY]

\* Tick (lines 17-20).
Tick(r) ==
    LET index == (r.index + 1) % r.TICKS_TO_DESTROY
    IN  [r EXCEPT !.index = index, !.elements = Clear(r.elements, index)]

\* Push (lines 22-24).
Push(r, object) ==
    [r EXCEPT !.elements[r.index + 1] = Append(r.elements[r.index + 1], object)]

\* The objects that `before` held, or was handed, and `after` no longer
\* holds: their destructors ran in the call.
Destroyed(before, handed, after, call) ==
    LET gone == (Alive(before) \cup handed) \ Alive(after)
    IN  [ o \in gone |-> [ object |-> o, tick |-> after.ticks, call |-> call ] ]

\* The record of a call: what it destroyed is appended to ring.destroyed.
RECURSIVE Recorded(_, _)
Recorded(log, destroyed) ==
    IF DOMAIN destroyed = {} THEN log
    ELSE LET o == CHOOSE x \in DOMAIN destroyed : \A y \in DOMAIN destroyed : x <= y
         IN  Recorded(Append(log, destroyed[o]),
                      [ x \in DOMAIN destroyed \ {o} |-> destroyed[x] ])

\* The members after construction (lines 27-28): index = 0 and
\* TICKS_TO_DESTROY empty vectors.
DelayedDestructionRing ==
    /\ ring.pc = "off"
    /\ \E n \in 1..MaxTicksToDestroy :
          ring' = [RingIdle EXCEPT !.pc = "live", !.TICKS_TO_DESTROY = n,
                                   !.elements = [ i \in 1..n |-> <<>> ]]
    /\ UNCHANGED <<cacheVars, cfa, ir, vk>>

\* A call of Push with a new object.
RingPush ==
    /\ ring.pc = "live"
    /\ Len(ring.pushed) < MaxObjects
    /\ LET object == Len(ring.pushed) + 1
           after == Push(ring, object)
       IN  ring' = [after EXCEPT
                      !.pushed = Append(ring.pushed, ring.ticks),
                      !.destroyed = Recorded(ring.destroyed,
                                             Destroyed(ring, {object}, after, "Push"))]
    /\ UNCHANGED <<cacheVars, cfa, ir, vk>>

\* A call of Tick.
RingTick ==
    /\ ring.pc = "live"
    /\ ring.ticks < MaxTicks
    /\ LET after == [Tick(ring) EXCEPT !.ticks = ring.ticks + 1]
       IN  ring' = [after EXCEPT
                      !.destroyed = Recorded(ring.destroyed,
                                             Destroyed(ring, {}, after, "Tick"))]
    /\ UNCHANGED <<cacheVars, cfa, ir, vk>>

NextRing ==
    \/ DelayedDestructionRing
    \/ RingPush
    \/ RingTick

SpecRing == InitCFA /\ [][NextRing]_vars

(***************************************************************************)
(* Jumps and the dispatch of their subroutine.                             *)
(***************************************************************************)
IsHead(line) == line.kind = "bool sub() {"

\* The position of the head of the subroutine definition that line i of the
\* text is part of (0 when it is part of none).
HeadOf(text, i) ==
    LET heads == { j \in 1 .. i : IsHead(text[j]) }
    IN IF heads = {} THEN 0 ELSE CHOOSE j \in heads : \A k \in heads : k <= j

\* The lines of the subroutine definition that line i is part of.
DefinitionOf(text, i) ==
    { k \in DOMAIN text : HeadOf(text, k) = HeadOf(text, i) /\ HeadOf(text, i) # 0 }

\* C24: in the text that is returned, every conditional jump compiled in the
\* definition of a subroutine has its destination in the label set of that
\* subroutine, and every "jmp_to = L; break;" stands in a definition that has
\* the while/switch dispatch before it and a "case L".
C24_JumpsDispatched ==
    TextReturned =>
        \A i \in DOMAIN cfa.shader_source :
            LET text == cfa.shader_source
                head == text[HeadOf(text, i)]
            IN /\ (text[i].kind = "comment" /\ HeadOf(text, i) # 0
                      /\ cfa.program_code[text[i].a + 1].op = "JMPC") =>
                      \E sub \in cfa.subroutines :
                          /\ sub.begin = head.a /\ sub.end = head.b
                          /\ cfa.program_code[text[i].a + 1].dest \in sub.labels
               /\ text[i].kind = "jmp_to" =>
                      /\ \E k \in DefinitionOf(text, i) :
                             k < i /\ text[k].kind = "switch (jmp_to) {"
                      /\ \E k \in DefinitionOf(text, i) :
                             text[k] = Line("case", text[i].a, 0)

\* <<CALLC (1, 3), JMPC 2, END>>: the range (1, PROGRAM_END) was scanned for
\* the callee when the main subroutine reaches it, the main subroutine has no
\* label, and its definition holds the "jmp_to = 2; break;" of the jump at
\* offset 1 with no dispatch and no case around it.
C24_Witness ==
    /\ TextReturned /\ cfa.main_offset = 0
    /\ cfa.program_code[1] = Instr("CALLC", 1, PROGRAM_END - 1)
    /\ cfa.program_code[2] = Instr("JMPC", PROGRAM_END - 1, 0)
    /\ \E s \in cfa.subroutines :
           s.begin = 0 /\ s.end = PROGRAM_END /\ s.labels = {}
    /\ \E i \in DOMAIN cfa.shader_source :
           /\ cfa.shader_source[i] = Line("jmp_to", PROGRAM_END - 1, 0)
           /\ cfa.shader_source[HeadOf(cfa.shader_source, i)]
                  = Line("bool sub() {", 0, PROGRAM_END)
           /\ \A k \in DefinitionOf(cfa.shader_source, i) :
                  cfa.shader_source[k].kind \notin {"switch (jmp_to) {", "case"}

(***************************************************************************)
(* The guard of RCP and RSQ and the assignment it governs.                 *)
(***************************************************************************)
\* C26: with sanitize_mul false, every guard line of an RCP or RSQ in the
\* text is followed at once by the assignment line of the same instruction,
\* whatever the destination mask of the instruction enables.
C26_GuardGovernsAssignment ==
    (TextReturned /\ ~cfa.sanitize_mul) =>
        \A i \in DOMAIN cfa.shader_source : \A op \in {"RCP", "RSQ"} :
            cfa.shader_source[i].kind = GuardOf(op) =>
                /\ i + 1 \in DOMAIN cfa.shader_source
                /\ cfa.shader_source[i + 1]
                       = Line(ValueOf(op), cfa.shader_source[i].a, 0)

\* An RSQ whose destination mask enables no component, with sanitize_mul
\* false: its guard line is in the text and the line after it is the comment
\* of the next instruction, not an assignment.
C26_Witness ==
    /\ TextReturned /\ ~cfa.sanitize_mul
    /\ \E o \in Offsets :
           /\ cfa.program_code[o + 1].op = "RSQ" /\ cfa.swizzle_data[o + 1] = 0
           /\ \E i \in DOMAIN cfa.shader_source :
                  /\ cfa.shader_source[i] = Line(GuardOf("RSQ"), o, 0)
                  /\ cfa.shader_source[i + 1] = Line("comment", o + 1, 0)

(***************************************************************************)
(* Properties of the Vulkan graphics pipeline.                             *)
(***************************************************************************)
\* Every command that ran with bind_pipeline set ran when is_built was true.
BindsAfterBuilt ==
    \A i \in DOMAIN vk.executed :
        (vk.executed[i].cmd = "draw" /\ vk.executed[i].bind) => vk.executed[i].is_built

\* A wait that is about to block or is blocked has a notification to come:
\* the build has not reached notify_one; and no wait is left blocked or
\* locked out when the build is over.
NoMissedWakeup ==
    /\ vk.sched = "blocking" => (vk.build \in {"queued", "made"} /\ ~vk.is_built)
    /\ vk.sched = "blocked" => vk.build \in {"queued", "made", "locked", "set"}
    /\ vk.build_mutex = "build" <=> vk.build \in {"locked", "set", "notified"}
    /\ vk.build_mutex = "sched" <=> vk.sched \in {"locked", "blocking"}

WaitPending == SchedulerAt("wait")

\* C27: with the build on a worker thread, in every interleaving each
\* executed command that binds the pipeline ran after is_built was set, a
\* wait never blocks after the notification of the build, and every recorded
\* wait returns.
C27_WaitThenBind ==
    /\ [](vk.worker_thread => (BindsAfterBuilt /\ NoMissedWakeup))
    /\ (vk.worker_thread /\ WaitPending) ~> ~WaitPending

\* The build ran on the worker, the recorded wait blocked, was woken and
\* returned, and the command after it bound the pipeline with is_built true.
C27_Witness ==
    /\ vk.worker_thread /\ vk.blocked /\ vk.build = "done"
    /\ Len(vk.executed) >= 2
    /\ vk.executed[1].cmd = "wait"
    /\ vk.executed[2] = [cmd |-> "draw", bind |-> TRUE, is_built |-> TRUE,
                         pipeline |-> TRUE]

\* ---- Properties of the line-rasterization state ----

LineTopologies == {"LINE_LIST", "LINE_STRIP"}

\* The pNext chain of rasterization_ci holds line_state.
HasLineState ==
    \E i \in DOMAIN vk.rasterization : vk.rasterization[i] = "line_state"

\* C29: IsLine is true exactly for the line list and the line strip, so a
\* pipeline made by MakePipeline chains the line-rasterization state only
\* when its input-assembly topology is a line topology and the device
\* supports the extension.
C29_LineStateOnlyForLines ==
    vk.pipeline =>
        LET topology == InputAssemblyTopology(vk.topology, vk.has_tess_stages)
        IN  /\ IsLine(topology) <=> topology \in LineTopologies
            /\ HasLineState => (topology \in LineTopologies /\ vk.device.line)

\* A pipeline of triangles was made with the line-rasterization state chained.
C29_Witness ==
    /\ vk.pipeline
    /\ vk.topology = "TRIANGLE_LIST"
    /\ vk.device.line
    /\ HasLineState


(***************************************************************************)
(* Properties of the translation of LDC.                                   *)
(***************************************************************************)
LdcTranslated == ir.pc = "translated" /\ ir.opcode.class = "LDC"

LdcThrown == ir.value.status = "NotImplementedException"

NoRegisterWrite == \A i \in DOMAIN ir.code : ir.code[i].op # "SetRegister"

\* reg + imm_offset in 32 bits, as its upper and lower half.
AddressLo == (ir.args[1].lo + ir.insn.offset + Segment) % Segment
AddressHi ==
    (ir.args[1].hi + (IF ir.insn.offset < 0 THEN Segment - 1 ELSE 0)
        + (IF ir.args[1].lo + ((ir.insn.offset + Segment) % Segment) >= Segment
           THEN 1 ELSE 0)) % Segment

SlotIndex == IrValue(ir.code, ir.args[1], ir.value.index)
SlotOffset == IrValue(ir.code, ir.args[1], ir.value.offset)

\* C23: LDC throws NotImplementedException and writes no register for a mode
\* other than Default and IS, for a size other than U8, S8, U16, S16, B32 and
\* B64, and for a B64 load into a register that is not aligned to 2; for mode
\* Default the slot is (imm_index, reg + imm_offset), for mode IS it is (bits
\* 16..31 of (reg + imm_offset) + imm_index, bits 0..15 of (reg + imm_offset)).
C23_LdcTranslation ==
    LdcTranslated =>
        /\ ( \/ ir.insn.mode \notin {"Default", "IS"}
             \/ ir.insn.size \notin {"U8", "S8", "U16", "S16", "B32", "B64"}
             \/ (ir.insn.size = "B64" /\ ir.insn.dest_reg % 2 # 0) )
               => (LdcThrown /\ NoRegisterWrite)
        /\ ir.insn.mode = "Default" =>
               /\ SlotIndex = Word(0, ir.insn.index)
               /\ SlotOffset = Word(AddressHi, AddressLo)
        /\ ir.insn.mode = "IS" =>
               /\ SlotIndex = Word((AddressHi + ir.insn.index) \div Segment,
                                   (AddressHi + ir.insn.index) % Segment)
               /\ SlotOffset = Word(0, AddressLo)

\* A B64 load in mode IS into R1, with a source register whose lower half
\* overflows when the offset is added: the slot is computed, the exception
\* is thrown and no register is written.
C23_Witness ==
    /\ LdcTranslated /\ ir.insn.mode = "IS" /\ ir.insn.size = "B64"
    /\ ir.insn.dest_reg = 1 /\ ir.insn.offset = 4 /\ ir.insn.index = MaxIndex
    /\ ir.args[1] = Word(0, Segment - 1)
    /\ LdcThrown /\ NoRegisterWrite
    /\ SlotIndex = Word(0, 1 + MaxIndex) /\ SlotOffset = Word(0, 3)

(***************************************************************************)
(* Properties of the floating-point opcodes.                               *)
(***************************************************************************)
FPEmitted(class) == ir.pc = "emitted" /\ ir.opcode.class = class

IgnoreNan == ir.profile.ignore_nan_fp_comparisons

\* The truth of the unordered comparison on the operands of the opcode.
UnorderedHolds ==
    ir.args[1].nan \/ ir.args[2].nan
        \/ Relation(ir.opcode.rel, ir.args[1].v, ir.args[2].v)

\* The code is the comparison `op` on the two operands, with IsNan of each
\* operand or-ed to it.
IsNanSynthesis(op) ==
    ir.code = << Inst("OpIsNan", "", 1, 0, 0), Inst("OpIsNan", "", 2, 0, 0),
                 Inst(op, ir.opcode.rel, 1, 2, 0),
                 Inst("OpLogicalOr", "", NumArgs + 3, NumArgs + 1, 0),
                 Inst("OpLogicalOr", "", NumArgs + 4, NumArgs + 2, 0) >>

\* The code is the one native comparison `op` on the two operands.
NativeOp(op) == ir.code = << Inst(op, ir.opcode.rel, 1, 2, 0) >>

\* C21 as the claim states it: with ignore_nan_fp_comparisons set, every
\* unordered comparison opcode, NotEqual included, is the ordered comparison
\* with IsNan of both operands or-ed to it; with the flag clear it is the
\* native unordered comparison; the result is true exactly when an operand is
\* NaN or the comparison holds.
C21_AsStated ==
    FPEmitted("Unord") =>
        /\ IF IgnoreNan THEN IsNanSynthesis("OpFOrd") ELSE NativeOp("OpFUnord")
        /\ ir.value = UnorderedHolds

\* C21: with ignore_nan_fp_comparisons set, the unordered opcodes Equal,
\* LessThan, GreaterThan, LessThanEqual and GreaterThanEqual are the native
\* unordered comparison with IsNan of both operands or-ed to it;
\* FPUnordNotEqual is the native unordered comparison under both settings, and
\* so is every unordered opcode when the flag is clear; the result is true
\* exactly when an operand is NaN or the comparison holds.
C21_UnordCompare ==
    FPEmitted("Unord") =>
        /\ IF IgnoreNan /\ ir.opcode.rel # "NotEqual"
           THEN IsNanSynthesis("OpFUnord") ELSE NativeOp("OpFUnord")
        /\ ir.value = UnorderedHolds

\* FPUnordLessThan on a NaN and a number with the flag set: the five
\* instructions of the synthesis, and the result is true.
C21_Witness ==
    /\ FPEmitted("Unord") /\ IgnoreNan /\ ir.opcode.rel = "LessThan"
    /\ ir.args[1].nan /\ ~ir.args[2].nan
    /\ Len(ir.code) = 5 /\ ir.value = TRUE

\* The code Clamp adds for the emitted opcode under `profile`.
ClampCode(profile) ==
    IF ir.opcode.class = "Saturate" THEN EmitFPSaturate(profile, 1)
    ELSE EmitFPClamp(profile, 1, 2, 3)

\* The lowering the other setting of has_broken_spirv_clamp chooses.
OtherLowering ==
    ClampCode([ir.profile EXCEPT !.has_broken_spirv_clamp = ~@])

\* The bounds of the emitted clamp: 0 and 1 for a saturate.
ClampLo == IF ir.opcode.class = "Saturate" THEN Float(0) ELSE ir.args[2]
ClampHi == IF ir.opcode.class = "Saturate" THEN Float(One) ELSE ir.args[3]

ClampEmitted ==
    /\ FPEmitted("Saturate") \/ FPEmitted("Clamp")
    /\ ~ClampLo.nan /\ ~ClampHi.nan /\ ClampLo.v <= ClampHi.v

\* x limited to [lo, hi].
Limited(x, lo, hi) == IF x.v < lo.v THEN lo ELSE IF x.v > hi.v THEN hi ELSE x

\* C22: for bounds lo <= hi, every result the lowering chosen by
\* has_broken_spirv_clamp gives is a result of the lowering the other setting
\* chooses; for a number x both give x limited to [lo, hi] and nothing else
\* (for a NaN x both may give x, lo or hi).
C22_ClampLoweringsAgree ==
    ClampEmitted =>
        /\ ir.value \in Values(OtherLowering, ir.args, Id(OtherLowering))
        /\ Values(OtherLowering, ir.args, Id(OtherLowering))
               = Values(ir.code, ir.args, Id(ir.code))
        /\ ~ir.args[1].nan =>
               /\ ir.value = Limited(ir.args[1], ClampLo, ClampHi)
               /\ Values(ir.code, ir.args, Id(ir.code)) = { ir.value }

\* FPClamp of a value above the upper bound with has_broken_spirv_clamp set:
\* OpFMax and OpFMin are emitted and the result is the upper bound.
C22_Witness ==
    /\ FPEmitted("Clamp") /\ ClampEmitted /\ ir.profile.has_broken_spirv_clamp
    /\ ~ir.args[1].nan /\ ir.args[1].v > ClampHi.v /\ ClampLo.v < ClampHi.v
    /\ Len(ir.code) = 2 /\ ir.code[1].op = "OpFMax" /\ ir.code[2].op = "OpFMin"
    /\ ir.value = ClampHi

\* C25: FPOrdNotEqual is true exactly when neither operand is NaN and the
\* operands differ, under both settings of ignore_nan_fp_comparisons.
C25_OrdNotEqualTruthTable ==
    (FPEmitted("Ord") /\ ir.opcode.rel = "NotEqual") =>
        ir.value = (~ir.args[1].nan /\ ~ir.args[2].nan /\ ir.args[1].v # ir.args[2].v)

\* FPOrdNotEqual of two equal numbers with the flag set: the comparison
\* emitted is OpFOrdEqual and the result is true.
C25_Witness ==
    /\ FPEmitted("Ord") /\ ir.opcode.rel = "NotEqual" /\ IgnoreNan
    /\ ~ir.args[1].nan /\ ir.args[1] = ir.args[2]
    /\ ir.code[1] = Inst("OpFOrd", "Equal", 1, 2, 0)
    /\ ir.value = TRUE

\* ---- Properties of the delayed destruction ring ----

\* The entry of ring.destroyed for an object, if it was destroyed.
DestroyedEntries(object) ==
    { i \in DOMAIN ring.destroyed : ring.destroyed[i].object = object }

\* The calls of Tick since the object was pushed.
TicksSince(object) == ring.ticks - ring.pushed[object]

\* C30: an object pushed stays alive through the next TICKS_TO_DESTROY - 1
\* calls of Tick and is destroyed by the TICKS_TO_DESTROY-th call of Tick
\* after its Push; no Tick destroys an object pushed fewer than
\* TICKS_TO_DESTROY ticks earlier, and Push destroys nothing.
C30_DestroyedByNthTick ==
    ring.pc = "live" =>
        /\ \A object \in DOMAIN ring.pushed :
              /\ TicksSince(object) < ring.TICKS_TO_DESTROY
                    => (object \in Alive(ring) /\ DestroyedEntries(object) = {})
              /\ TicksSince(object) >= ring.TICKS_TO_DESTROY
                    => (object \notin Alive(ring) /\ DestroyedEntries(object) # {})
        /\ \A i \in DOMAIN ring.destroyed :
              /\ ring.destroyed[i].call = "Tick"
              /\ ring.destroyed[i].tick - ring.pushed[ring.destroyed[i].object]
                    = ring.TICKS_TO_DESTROY

\* In a ring of three ticks, the first object was destroyed by the third
\* Tick after its Push, a later object is still alive, and something was
\* pushed between two ticks.
C30_Witness ==
    /\ ring.pc = "live"
    /\ ring.TICKS_TO_DESTROY = 3
    /\ Len(ring.pushed) >= 2
    /\ ring.pushed[1] = 1
    /\ ring.pushed[2] = 2
    /\ ring.destroyed = << [ object |-> 1, tick |-> 4, call |-> "Tick" ] >>
    /\ 2 \in Alive(ring)

\* ---- Properties of the progress callback of LoadDiskResources ----

\* LoadDiskResources returns: the step after which callback is no longer
\* invoked.
LoadReturns == ld.pc = "waiting" /\ ld'.pc = "done"

\* C28: when N >= 1 pipelines were queued from the cache file and no stop was
\* requested, the Build-stage callback has been invoked with built = total =
\* N by the time LoadDiskResources returns (the invocations count upwards, so
\* it is then the last one), with workers and with a strict context; and
\* every Build-stage invocation reports built <= total.
C28_ProgressReachesTotal ==
    /\ [](ld.reported # <<>> => ld.reported[1] <= ld.reported[2])
    /\ [][(LoadReturns /\ ld.total >= 1 /\ ~ld.stop)
            => ld.reported = <<ld.total, ld.total>>]_vars

\* With a strict context, both records of a file were built inline; the only
\* Build-stage invocation was callback(Build, 0, 2) and the call is about to
\* return.
C28_Witness ==
    /\ strict_context_required
    /\ ld.pc = "waiting" /\ ~ld.stop
    /\ ld.total = 2 /\ ld.built = 2
    /\ ld.reported = <<0, 2>>
    /\ ENABLED LoadWait

=============================================================================
